---- MODULE Spec2Model ----
(***************************************************************************)
(* A model of the chess rules engine of palatino (chess-core): bitboard    *)
(* positions, castle rights, the legal-move generator and the state        *)
(* transition play_unchecked.                                              *)
(*                                                                         *)
(* A Bitmask (u64, bit i = square i) is modelled as the set of its         *)
(* squares; an Option<T> is modelled as a set with at most one element.    *)
(***************************************************************************)
EXTENDS Integers, FiniteSets, Sequences, TLC

(***************************************************************************)
(* Enumerations (the discriminants are the ones of the source).            *)
(***************************************************************************)
White == 0
Black == 1

Pawn == 0
King == 1
Rook == 2
Knight == 3
Bishop == 4
Queen == 5

FileA == 0
FileC == 2
FileD == 3
FileF == 5
FileG == 6
FileH == 7

Rank1 == 0
Rank8 == 7

Short == "Short"
Long == "Long"

I16_MAX == 32767

Color == {White, Black}
Piece == {Pawn, King, Rook, Knight, Bishop, Queen}
Square == 0..63
CastleDir == {Short, Long}

\* The element of a one-element set (Option::unwrap).
Only(s) == CHOOSE x \in s : TRUE

Min(s) == CHOOSE x \in s : \A y \in s : x <= y
Max(s) == CHOOSE x \in s : \A y \in s : x >= y

\* Color::not
Not(color) == IF color = White THEN Black ELSE White

\* Color::pawn_dir
pawn_dir(color) == IF color = White THEN 1 ELSE -1

\* Color::back_rank
back_rank(color) == IF color = White THEN Rank1 ELSE Rank8

(***************************************************************************)
(* Square algebra.                                                         *)
(***************************************************************************)
\* Square::file: the first three bits.
file(sq) == sq % 8

\* Square::rank: the last three bits.
rank(sq) == sq \div 8

\* Square::new: (rank << 3) | file.
SquareNew(f, r) == r * 8 + f

\* Square::with_file
with_file(sq, f) == SquareNew(f, rank(sq))

\* Square::with_rank
with_rank(sq, r) == SquareNew(file(sq), r)

\* Square::shares_orthogonal
shares_orthogonal(a, b) == file(a) = file(b) \/ rank(a) = rank(b)

\* Square::shares_diagonal
shares_diagonal(a, b) ==
    \/ file(a) - rank(a) = file(b) - rank(b)
    \/ file(a) - rank(b) = file(b) - rank(a)

\* File::try_idx / Rank::try_idx accept idx = 8 (the test is idx > 8) and
\* transmute it to an enum that has no such variant: undefined behaviour.
\* try_offset_invalid is TRUE when Square::try_offset executes that
\* transmute: the file index is 8, or the file is valid and the rank index
\* is 8.
try_offset_invalid(sq, df, dr) ==
    LET f == file(sq) + df
        r == rank(sq) + dr
    IN  \/ f = 8
        \/ f \in 0..7 /\ r = 8

\* Square::try_offset in the builds where the invalid value 8 coincides with
\* the None of Option<File> / Option<Rank>, so that the ? operator returns
\* None.  (The other outcome of the undefined behaviour, a panic at the
\* unwrap of Square::new, is the action Panic.)
try_offset(sq, df, dr) ==
    LET f == file(sq) + df
        r == rank(sq) + dr
    IN  IF f \in 0..7 /\ r \in 0..7 THEN {SquareNew(f, r)} ELSE {}

\* Square::diag_edge
diag_edge(sq, dx, dy) ==
    LET sf == IF dx = -1 THEN file(sq) ELSE 7 - file(sq)
        sr == IF dy = -1 THEN rank(sq) ELSE 7 - rank(sq)
        d  == IF sf < sr THEN sf ELSE sr
    IN  Only(try_offset(sq, d * dx, d * dy))

(***************************************************************************)
(* Bitmask.                                                                *)
(***************************************************************************)
\* Bitmask::first: the lowest square, None for the empty mask.
first(m) == IF m = {} THEN {} ELSE {Min(m)}

\* Bitmask::last: the highest square, None for the empty mask.
last(m) == IF m = {} THEN {} ELSE {Max(m)}

\* Bitmask::intersection: self & !other.
intersection(a, b) == a \ b

\* Bitmask::intersects: self.intersection(other) != self.
intersects(a, b) == intersection(a, b) # a

(***************************************************************************)
(* Cached attack tables (module `cached`, described in section 4.1 of the  *)
(* specification).                                                         *)
(***************************************************************************)
OnBoard(f, r) == f \in 0..7 /\ r \in 0..7

Offsets(sq, ds) ==
    {SquareNew(file(sq) + d[1], rank(sq) + d[2]) :
        d \in {e \in ds : OnBoard(file(sq) + e[1], rank(sq) + e[2])}}

KNIGHT ==
    [sq \in Square |->
        Offsets(sq, {<<1, 2>>, <<2, 1>>, <<2, -1>>, <<1, -2>>,
                     <<-1, -2>>, <<-2, -1>>, <<-2, 1>>, <<-1, 2>>})]

KING ==
    [sq \in Square |->
        Offsets(sq, {<<1, 0>>, <<1, 1>>, <<0, 1>>, <<-1, 1>>,
                     <<-1, 0>>, <<-1, -1>>, <<0, -1>>, <<1, -1>>})]

WHITE_PAWN_ATTACKS == [sq \in Square |-> Offsets(sq, {<<-1, 1>>, <<1, 1>>})]

BLACK_PAWN_ATTACKS == [sq \in Square |-> Offsets(sq, {<<-1, -1>>, <<1, -1>>})]

WHITE_PAWN_MOVES ==
    [sq \in Square |->
        Offsets(sq, IF rank(sq) = 1 THEN {<<0, 1>>, <<0, 2>>} ELSE {<<0, 1>>})]

BLACK_PAWN_MOVES ==
    [sq \in Square |->
        Offsets(sq, IF rank(sq) = 6 THEN {<<0, -1>>, <<0, -2>>} ELSE {<<0, -1>>})]

ROOK == [sq \in Square |-> {t \in Square : t # sq /\ shares_orthogonal(sq, t)}]

BISHOP == [sq \in Square |-> {t \in Square : t # sq /\ shares_diagonal(sq, t)}]

QUEEN == [sq \in Square |-> ROOK[sq] \cup BISHOP[sq]]

Aligned(a, b) == a # b /\ (shares_orthogonal(a, b) \/ shares_diagonal(a, b))

Sign(x) == IF x > 0 THEN 1 ELSE IF x < 0 THEN -1 ELSE 0

Abs(x) == IF x < 0 THEN -x ELSE x

\* The squares strictly between a and b on a shared file, rank or diagonal.
BETWEEN ==
    [a \in Square |-> [b \in Square |->
        IF ~Aligned(a, b) THEN {}
        ELSE LET dx == Sign(file(b) - file(a))
                 dy == Sign(rank(b) - rank(a))
                 n  == IF file(a) # file(b) THEN Abs(file(b) - file(a))
                       ELSE Abs(rank(b) - rank(a))
             IN  {SquareNew(file(a) + k * dx, rank(a) + k * dy) : k \in 1..(n - 1)}]]

(***************************************************************************)
(* Piece attack model (piece.rs).                                          *)
(***************************************************************************)
\* Piece::is_slider
is_slider(piece) == piece \in {Rook, Queen, Bishop}

\* Piece::sliding_attacks
sliding_attacks(piece, sq) ==
    IF piece = Bishop THEN BISHOP[sq]
    ELSE IF piece = Rook THEN ROOK[sq]
    ELSE QUEEN[sq]

\* The eight (edge, nearest_fn) pairs of Piece::edges; nearest_fn is
\* "first" or "last".
ALL_EDGES ==
    [sq \in Square |->
        << <<with_file(sq, FileA), "last">>,
           <<with_file(sq, FileH), "first">>,
           <<with_rank(sq, Rank1), "last">>,
           <<with_rank(sq, Rank8), "first">>,
           <<diag_edge(sq, 1, 1), "first">>,
           <<diag_edge(sq, -1, -1), "last">>,
           <<diag_edge(sq, -1, 1), "first">>,
           <<diag_edge(sq, 1, -1), "last">> >>]

\* Piece::edges: the slice 4..8 for a bishop, 0..4 for a rook, 0..8 otherwise.
edges(piece, sq) ==
    IF piece = Bishop THEN SubSeq(ALL_EDGES[sq], 5, 8)
    ELSE IF piece = Rook THEN SubSeq(ALL_EDGES[sq], 1, 4)
    ELSE ALL_EDGES[sq]

\* The closure folded over the edges in Piece::moves.
slide_step(mask, sq, e, blockers) ==
    LET edge     == e[1]
        blocking == BETWEEN[sq][edge] \cap blockers
        nearest  == IF e[2] = "first" THEN first(blocking) ELSE last(blocking)
    IN  IF nearest # {}
        THEN intersection(mask, BETWEEN[Only(nearest)][edge]) \ {edge}
        ELSE mask

RECURSIVE slide_fold(_, _, _, _)
slide_fold(es, mask, sq, blockers) ==
    IF es = <<>> THEN mask
    ELSE slide_fold(Tail(es), slide_step(mask, sq, Head(es), blockers), sq, blockers)

\* Piece::relevant_squares
relevant_squares(piece, sq, color) ==
    IF piece = Pawn
    THEN (IF color = White THEN WHITE_PAWN_ATTACKS[sq] ELSE BLACK_PAWN_ATTACKS[sq])
    ELSE IF piece = King THEN KING[sq]
    ELSE IF piece = Knight THEN KNIGHT[sq]
    ELSE sliding_attacks(piece, sq)

\* The push-only moves of a pawn in Piece::moves.
pawn_pushes(sq, blockers, color) ==
    LET table == IF color = White THEN WHITE_PAWN_MOVES[sq] ELSE BLACK_PAWN_MOVES[sq]
        one   == try_offset(sq, 0, pawn_dir(color))
    IN  IF one = {} THEN table
        ELSE LET o      == Only(one)
                 moves1 == IF o \in blockers THEN table \ {o} ELSE table
                 two    == try_offset(o, 0, pawn_dir(color))
             IN  IF two = {} THEN moves1
                 ELSE LET t == Only(two)
                      IN  IF o \notin moves1 \/ o \in blockers \/ t \in blockers
                          THEN moves1 \ {t}
                          ELSE moves1

\* Piece::moves: <<capture moves, push-only moves>>.
moves(piece, sq, blockers, color) ==
    IF is_slider(piece)
    THEN <<slide_fold(edges(piece, sq), sliding_attacks(piece, sq), sq, blockers), {}>>
    ELSE <<relevant_squares(piece, sq, color),
           IF piece = Pawn THEN pawn_pushes(sq, blockers, color) ELSE {}>>

\* Piece::moves executes the invalid transmute of Square::try_offset: a pawn
\* whose first or second push square would have rank index 8.
moves_invalid(piece, sq, color) ==
    /\ piece = Pawn
    /\ LET one == try_offset(sq, 0, pawn_dir(color))
       IN  \/ try_offset_invalid(sq, 0, pawn_dir(color))
           \/ one # {} /\ try_offset_invalid(Only(one), 0, pawn_dir(color))

(***************************************************************************)
(* Position (position.rs): masks[0..1] colours, masks[2..7] piece types.   *)
(***************************************************************************)
white(pos) == pos.masks[0]

black(pos) == pos.masks[1]

pawns(pos) == pos.masks[2]

kings(pos) == pos.masks[3]

knights(pos) == pos.masks[5]

\* Position::color_mask
color_mask(pos, color) == IF color = White THEN white(pos) ELSE black(pos)

\* Position::occupied
occupied(pos) == pos.masks[0] \cup pos.masks[1]

\* Position::color_of
color_of(pos, sq) ==
    IF sq \in white(pos) THEN {White}
    ELSE IF sq \in black(pos) THEN {Black}
    ELSE {}

\* The first piece-type mask (index 0..5) that has the square.
type_at(pos, sq) == first({i \in 0..5 : sq \in pos.masks[2 + i]})

\* Position::piece_at: None, or <<color, piece>>.  The unwrap of color_of
\* cannot fail in a position whose piece squares all have a colour.
piece_at(pos, sq) ==
    IF type_at(pos, sq) = {} THEN {}
    ELSE {<<Only(color_of(pos, sq)), Only(type_at(pos, sq))>>}

\* Position::diagonal_sliders
diagonal_sliders(pos, color) ==
    (pos.masks[7] \cup pos.masks[6]) \cap color_mask(pos, color)

\* Position::orthogonal_sliders
orthogonal_sliders(pos, color) ==
    (pos.masks[7] \cup pos.masks[4]) \cap color_mask(pos, color)

\* Position::remove: the position after the call.  Without a colour on the
\* square the call returns before it touches a piece-type mask.
remove(pos, sq) ==
    IF color_of(pos, sq) = {} THEN pos
    ELSE LET c  == Only(color_of(pos, sq))
             m1 == [pos.masks EXCEPT ![c] = @ \ {sq}]
             t  == type_at(pos, sq)
         IN  IF t = {} THEN [pos EXCEPT !.masks = m1]
             ELSE [pos EXCEPT !.masks = [m1 EXCEPT ![2 + Only(t)] = @ \ {sq}]]

\* Position::remove: the value it returns.
removed(pos, sq) ==
    IF color_of(pos, sq) = {} \/ type_at(pos, sq) = {} THEN {}
    ELSE {<<Only(color_of(pos, sq)), Only(type_at(pos, sq))>>}

\* Position::set that does not remove the piece it displaces.
set_over(pos, sq, piece, color) ==
    [pos EXCEPT !.masks = [@ EXCEPT ![color] = @ \cup {sq},
                                    ![2 + piece] = @ \cup {sq}]]

\* Position::set: the position after the call.
set(pos, sq, piece, color) ==
    LET p1 == remove(pos, sq)
    IN  [p1 EXCEPT !.masks = [@ EXCEPT ![color] = @ \cup {sq},
                                       ![2 + piece] = @ \cup {sq}]]

\* Position::set: the displaced piece it returns.
displaced(pos, sq) == removed(pos, sq)

(***************************************************************************)
(* Position::change and Position::changes (position.rs).  A BoardChange is *)
(* a record tagged by its variant.                                         *)
(***************************************************************************)
\* BoardChange::Remove, ::Move, ::Add
Remove(square) == [kind |-> "Remove", square |-> square]

Move(from, dest) == [kind |-> "Move", from |-> from, dest |-> dest]

Add(piece, square, color) ==
    [kind |-> "Add", piece |-> piece, square |-> square, color |-> color]

\* BoardChange::priority
priority(c) ==
    IF c.kind = "Remove" THEN 2 ELSE IF c.kind = "Move" THEN 1 ELSE 0

\* Position::change
change(pos, c) ==
    IF c.kind = "Remove" THEN remove(pos, c.square)
    ELSE IF c.kind = "Add" THEN set(pos, c.square, c.piece, c.color)
    ELSE LET p1 == remove(pos, c.dest)
             pa == piece_at(p1, c.from)
         IN  IF pa = {} THEN p1
             ELSE LET color == Only(pa)[1]
                      piece == Only(pa)[2]
                      p2    == remove(p1, c.dest)
                      m1    == [p2.masks EXCEPT ![color] = (@ \ {c.from}) \cup {c.dest}]
                      m2    == [m1 EXCEPT ![2 + piece] = (@ \ {c.from}) \cup {c.dest}]
                  IN  [p2 EXCEPT !.masks = m2]

\* The squares of a mask in the order BitmaskIter yields them (A1 first).
RECURSIVE into_iter(_)
into_iter(m) == IF m = {} THEN <<>> ELSE <<Min(m)>> \o into_iter(m \ {Min(m)})

\* `n` times mask.remove(mask.first()).
RECURSIVE remove_first(_, _)
remove_first(m, n) == IF n = 0 \/ m = {} THEN m ELSE remove_first(m \ {Min(m)}, n - 1)

\* Iterator::zip of two square sequences, mapped to Move(a, b).
zip_moves(as, bs) ==
    [i \in 1..(IF Len(as) < Len(bs) THEN Len(as) ELSE Len(bs)) |-> Move(as[i], bs[i])]

\* Position::changes: the edits pushed for one piece type and colour
\* (lines 286-355).
changes_of(self, other, piece, color) ==
    LET fr_mask == self.masks[2 + piece] \cap color_mask(self, color)
        to_mask == other.masks[2 + piece] \cap color_mask(other, color)
        fr_only == intersection(fr_mask, to_mask)
        to_only == intersection(to_mask, fr_mask)
        nf      == Cardinality(fr_only)
        nt      == Cardinality(to_only)
    IN  IF nf > nt
        THEN LET movable == remove_first(fr_only, nf - nt)
             IN  [i \in 1..(nf - nt) |->
                     Remove(into_iter(intersection(fr_only, movable))[i])]
                   \o zip_moves(into_iter(movable), into_iter(to_only))
        ELSE IF nf = nt
        THEN zip_moves(into_iter(fr_only), into_iter(to_only))
        ELSE LET movable == remove_first(to_only, nt - nf)
             IN  zip_moves(into_iter(fr_only), into_iter(movable))
                   \o [i \in 1..(nt - nf) |->
                         Add(piece, into_iter(intersection(to_only, movable))[i], color)]

\* Position::changes: the edits before the sort, piece type by piece type;
\* a type whose masks are equal is skipped (lines 282-284).
RECURSIVE changes_from(_, _, _)
changes_from(self, other, piece) ==
    IF piece > Queen THEN <<>>
    ELSE (IF self.masks[2 + piece] = other.masks[2 + piece] THEN <<>>
          ELSE changes_of(self, other, piece, White)
                 \o changes_of(self, other, piece, Black))
           \o changes_from(self, other, piece + 1)

\* changes.sort_unstable_by(priority): ascending priority.  For the short
\* lists of the model the library sorts by insertion, which keeps the order
\* of equal priorities.
sort_by_priority(cs) ==
    SelectSeq(cs, LAMBDA c : priority(c) = 0)
      \o SelectSeq(cs, LAMBDA c : priority(c) = 1)
      \o SelectSeq(cs, LAMBDA c : priority(c) = 2)

\* Position::changes
changes(self, other) == sort_by_priority(changes_from(self, other, Pawn))

(***************************************************************************)
(* CastleRights (castle.rs): per colour <<kingside, queenside>>, the       *)
(* fullmove at which the right was lost; negative = not lost.              *)
(***************************************************************************)
\* u16 as i16
as_i16(x) == IF x >= 32768 THEN x - 65536 ELSE x

\* CastleRights::rights
rights(castle, color) == IF color = White THEN castle.white_lost ELSE castle.black_lost

\* CastleRights::has_kingside_castle
has_kingside_castle(castle, color, turn) == as_i16(turn) > rights(castle, color)[1]

\* CastleRights::has_queenside_castle
has_queenside_castle(castle, color, turn) == as_i16(turn) > rights(castle, color)[2]

\* CastleRights::has_castle
has_castle(castle, color, turn, dir) ==
    IF dir = Long THEN has_queenside_castle(castle, color, turn)
    ELSE has_kingside_castle(castle, color, turn)

\* CastleRights::kingside_rook_square
kingside_rook_square(castle, color) == SquareNew(castle.kingside_file, back_rank(color))

\* CastleRights::queenside_rook_square
queenside_rook_square(castle, color) == SquareNew(castle.queenside_file, back_rank(color))

\* CastleRights::rook_square
rook_square(castle, color, dir) ==
    IF dir = Long THEN queenside_rook_square(castle, color)
    ELSE kingside_rook_square(castle, color)

\* CastleRights::kingside_target_squares: <<king target, rook target>>.
kingside_target_squares(color) ==
    <<SquareNew(FileG, back_rank(color)), SquareNew(FileF, back_rank(color))>>

\* CastleRights::queenside_target_squares: <<king target, rook target>>.
queenside_target_squares(color) ==
    <<SquareNew(FileC, back_rank(color)), SquareNew(FileD, back_rank(color))>>

\* CastleRights::target_squares
target_squares(color, dir) ==
    IF dir = Long THEN queenside_target_squares(color)
    ELSE kingside_target_squares(color)

\* CastleRights::kingside_check_mask
kingside_check_mask(king, color) ==
    LET king_target_sq == kingside_target_squares(color)[1]
    IN  BETWEEN[king][king_target_sq] \cup {king_target_sq}

\* CastleRights::queenside_check_mask
queenside_check_mask(king, color) ==
    LET king_target_sq == queenside_target_squares(color)[1]
    IN  BETWEEN[king][king_target_sq] \cup {king_target_sq}

\* CastleRights::check_mask
check_mask(king, color, dir) ==
    IF dir = Long THEN queenside_check_mask(king, color)
    ELSE kingside_check_mask(king, color)

\* CastleRights::kingside_block_mask
kingside_block_mask(castle, king, color) ==
    LET rook        == kingside_rook_square(castle, color)
        king_target == kingside_target_squares(color)[1]
        rook_target == kingside_target_squares(color)[2]
    IN  ((BETWEEN[king][king_target] \cup BETWEEN[rook][rook_target]
            \cup {rook_target} \cup {king_target}) \ {king}) \ {rook}

\* CastleRights::queenside_block_mask: the source takes the kingside rook
\* square here.
queenside_block_mask(castle, king, color) ==
    LET rook        == kingside_rook_square(castle, color)
        king_target == queenside_target_squares(color)[1]
        rook_target == queenside_target_squares(color)[2]
    IN  ((BETWEEN[king][king_target] \cup BETWEEN[rook][rook_target]
            \cup {rook_target} \cup {king_target}) \ {king}) \ {rook}

\* CastleRights::block_mask
block_mask(castle, king, color, dir) ==
    IF dir = Long THEN queenside_block_mask(castle, king, color)
    ELSE kingside_block_mask(castle, king, color)

\* CastleRights::kingside_castle_play_mask
kingside_castle_play_mask(castle, color) ==
    {kingside_target_squares(color)[1]} \cup {kingside_rook_square(castle, color)}

\* CastleRights::queenside_castle_play_mask
queenside_castle_play_mask(castle, color) ==
    {queenside_target_squares(color)[1]} \cup {queenside_rook_square(castle, color)}

\* CastleRights::castle_play_mask
castle_play_mask(castle, color, dir) ==
    IF dir = Long THEN queenside_castle_play_mask(castle, color)
    ELSE kingside_castle_play_mask(castle, color)

\* CastleRights::lose_kingside
lose_kingside(castle, color, turn) ==
    IF rights(castle, color)[1] < 0
    THEN (IF color = White
          THEN [castle EXCEPT !.white_lost[1] = as_i16(turn)]
          ELSE [castle EXCEPT !.black_lost[1] = as_i16(turn)])
    ELSE castle

\* CastleRights::lose_queenside
lose_queenside(castle, color, turn) ==
    IF rights(castle, color)[2] < 0
    THEN (IF color = White
          THEN [castle EXCEPT !.white_lost[2] = as_i16(turn)]
          ELSE [castle EXCEPT !.black_lost[2] = as_i16(turn)])
    ELSE castle

\* CastleRights::lose
lose(castle, color, side, turn) ==
    IF side = Long THEN lose_queenside(castle, color, turn)
    ELSE lose_kingside(castle, color, turn)

\* CastleRights::give
give(castle, color, side) ==
    LET i == IF side = Long THEN 2 ELSE 1
    IN  IF color = White
        THEN [castle EXCEPT !.white_lost[i] = -1]
        ELSE [castle EXCEPT !.black_lost[i] = -1]

\* CastleRights::none
CastleNone ==
    [kingside_file |-> FileH, queenside_file |-> FileA,
     white_lost |-> <<I16_MAX, I16_MAX>>, black_lost |-> <<I16_MAX, I16_MAX>>]

\* CastleRights::default
CastleDefault ==
    [kingside_file |-> FileH, queenside_file |-> FileA,
     white_lost |-> <<-1, -1>>, black_lost |-> <<-1, -1>>]

(***************************************************************************)
(* Move generator (generator.rs).                                          *)
(***************************************************************************)
\* MoveGenerator::king and the king lookups of the two compute_ functions:
\* the first own king, None when the colour has no king (the .expect of the
\* source then panics).
king_of(pos, turn) == first(kings(pos) \cap color_mask(pos, turn))

\* compute_defense_mask
compute_defense_mask(pos, turn) ==
    LET king     == Only(king_of(pos, turn))
        friendly == color_mask(pos, turn)
        blockers == occupied(pos) \ {king}
    IN  UNION {UNION {moves(piece, sq, blockers, Not(turn))[1] :
                        sq \in intersection(pos.masks[2 + piece], friendly)} :
                 piece \in Piece}

\* The sliders walked by compute_pinned_and_checking_masks.
king_line_sliders(pos, turn, king) ==
    intersection(diagonal_sliders(pos, Not(turn)), Square \ BISHOP[king])
      \cup intersection(orthogonal_sliders(pos, Not(turn)), Square \ ROOK[king])

\* compute_pinned_and_checking_masks: the pinned mask.  The source tests
\* friendly.has(square) on the slider's square.
compute_pinned_mask(pos, turn) ==
    LET king     == Only(king_of(pos, turn))
        blockers == occupied(pos)
        friendly == color_mask(pos, turn)
    IN  {sq \in king_line_sliders(pos, turn, king) :
            /\ Cardinality(blockers \cap BETWEEN[king][sq]) = 1
            /\ sq \in friendly}

\* compute_pinned_and_checking_masks: the checking mask.
compute_checking_mask(pos, turn) ==
    LET king     == Only(king_of(pos, turn))
        blockers == occupied(pos)
        friendly == color_mask(pos, turn)
    IN  {sq \in king_line_sliders(pos, turn, king) :
            Cardinality(blockers \cap BETWEEN[king][sq]) = 0}
        \cup ((knights(pos) \ friendly) \cap KNIGHT[king])
        \cup ((pawns(pos) \ friendly) \cap
                (IF turn = White THEN WHITE_PAWN_ATTACKS[king]
                 ELSE BLACK_PAWN_ATTACKS[king]))

\* MoveGenerator::new
MoveGeneratorNew(pos, turn, castle, fullmoves) ==
    [position  |-> pos,
     turn      |-> turn,
     castle    |-> castle,
     fullmoves |-> fullmoves,
     defense   |-> compute_defense_mask(pos, turn),
     pinned    |-> compute_pinned_mask(pos, turn),
     checking  |-> compute_checking_mask(pos, turn)]

\* MoveGenerator::from_state / BoardState::generator
generator(state) ==
    MoveGeneratorNew(state.position, state.turn, state.castle, state.fullmoves)

\* MoveGenerator::is_check
is_check(g) == g.checking # {}

\* en_passant_would_move_into_discovered_check
en_passant_would_move_into_discovered_check(pos, epsq, square, king, turn) ==
    LET capture_sq == with_file(square, file(epsq))
        blockers   == ((occupied(pos) \cup {epsq}) \ {square}) \ {capture_sq}
        sliders    == IF shares_orthogonal(capture_sq, king)
                      THEN orthogonal_sliders(pos, Not(turn)) \cap ROOK[king]
                      ELSE diagonal_sliders(pos, Not(turn)) \cap BISHOP[king]
    IN  IF shares_orthogonal(capture_sq, king) \/ shares_diagonal(epsq, king)
        THEN ~(\E s \in sliders : ~intersects(BETWEEN[king][s], blockers))
        ELSE TRUE

\* generate_internal, pawn branch: the en passant square is available to the
\* pawn on `square` (lines 126-136).
en_passant_candidate(g, attacks, square, king) ==
    /\ g.position.enps # {}
    /\ Only(g.position.enps) \in attacks
    /\ ~en_passant_would_move_into_discovered_check(
            g.position, Only(g.position.enps), square, king, g.turn)

\* generate_internal, pawn branch: the specials of the pawn (lines 137-158).
pawn_specials(g, attacks, square, king) ==
    IF ~en_passant_candidate(g, attacks, square, king) THEN {}
    ELSE LET en_passant_sq == Only(g.position.enps)
             capture_sq    == with_file(square, file(en_passant_sq))
             n             == Cardinality(g.checking)
         IN  IF n = 0 THEN {en_passant_sq}
             ELSE IF n = 1 /\ capture_sq \in g.checking
             THEN (IF square \notin g.pinned THEN {en_passant_sq} ELSE {})
             ELSE {}

\* generate_internal, pawn branch: the capturable mask (lines 123-158).
pawn_capturable(g, attacks, square, king) ==
    LET enemies == color_mask(g.position, Not(g.turn))
    IN  IF ~en_passant_candidate(g, attacks, square, king) THEN enemies
        ELSE LET en_passant_sq == Only(g.position.enps)
                 capture_sq    == with_file(square, file(en_passant_sq))
             IN  IF Cardinality(g.checking) = 1 /\ capture_sq \notin g.checking
                 THEN enemies \cup {en_passant_sq}
                 ELSE enemies

\* generate_internal, king branch: castling in direction dir is added
\* (lines 178-190).
castle_added(g, king, dir) ==
    /\ has_castle(g.castle, g.turn, g.fullmoves, dir)
    /\ ~intersects(check_mask(king, g.turn, dir), g.defense)
    /\ intersects(block_mask(g.castle, king, g.turn, dir), occupied(g.position))

\* generate_internal, king branch: the specials of the king (lines 174-198).
king_specials(g, king) ==
    IF is_check(g) THEN {}
    ELSE UNION {castle_play_mask(g.castle, g.turn, dir) :
                  dir \in {d \in CastleDir : castle_added(g, king, d)}}

\* Check resolution that intersects with the line of the first checking
\* piece only.
check_resolution_first(attacks, king, checking) ==
    IF checking = {} THEN attacks
    ELSE {a \in attacks :
            a \in BETWEEN[king][Only(first(checking))] \cup first(checking)}

\* generate_internal, check resolution (lines 207-212).
check_resolution(attacks, king, checking) ==
    {a \in attacks : \A c \in checking : a \in BETWEEN[king][c] \cup {c}}

\* generate_internal, pin resolution (lines 214-222).
pin_resolution(attacks, square, king, pinned) ==
    IF square \in pinned
    THEN (IF shares_orthogonal(square, king)
          THEN attacks \cap (ROOK[king] \cap ROOK[square])
          ELSE attacks \cap (BISHOP[king] \cap BISHOP[square]))
    ELSE attacks

\* MoveGenerator::generate_internal
generate_internal(g, piece, square, king) ==
    LET blockers == occupied(g.position)
        mv       == moves(piece, square, blockers, g.turn)
        attacks0 == mv[1] \ color_mask(g.position, g.turn)
        specials == IF piece = Pawn THEN pawn_specials(g, attacks0, square, king)
                    ELSE IF piece = King THEN king_specials(g, king)
                    ELSE {}
        attacks1 == IF piece = Pawn
                    THEN (attacks0 \cap pawn_capturable(g, attacks0, square, king))
                            \cup mv[2]
                    ELSE IF piece = King THEN attacks0 \ g.defense
                    ELSE attacks0
        attacks2 == check_resolution(attacks1, king, g.checking)
        attacks3 == pin_resolution(attacks2, square, king, g.pinned)
    IN  attacks3 \cup specials

\* MoveGenerator::generate
generate(g, square) ==
    LET p == piece_at(g.position, square)
    IN  IF p # {} /\ Only(p)[1] = g.turn
        THEN generate_internal(g, Only(p)[2], square, Only(king_of(g.position, g.turn)))
        ELSE {}

\* MoveGenerator::new panics: the .expect of compute_defense_mask finds no
\* king of the colour to move.
new_panics(pos, turn) == king_of(pos, turn) = {}

\* MoveGenerator::new executes the invalid transmute: compute_defense_mask
\* calls Piece::moves on every enemy piece, pawns included.
new_invalid(pos, turn) ==
    \E sq \in pawns(pos) \ color_mask(pos, turn) : moves_invalid(Pawn, sq, Not(turn))

\* MoveGenerator::generate executes the invalid transmute.
generate_invalid(g, square) ==
    /\ piece_at(g.position, square) = {<<g.turn, Pawn>>}
    /\ moves_invalid(Pawn, square, g.turn)

(***************************************************************************)
(* BoardState transition (state.rs).                                       *)
(***************************************************************************)
\* u8 and u16 increments keep their width.
inc_u8(x) == (x + 1) % 256

inc_u16(x) == (x + 1) % 65536

\* BoardState::move_requires_promotion
move_requires_promotion(state, from, dest) ==
    /\ piece_at(state.position, from) # {}
    /\ Only(piece_at(state.position, from))[2] = Pawn
    /\ rank(dest) = back_rank(Not(state.turn))

\* The pawn branch with the double-push test off by one: every pawn advance
\* records an en passant square.
play_pawn_any_push(state, result, from, dest, promote) ==
    LET r1 == [result EXCEPT !.halfmoves = 0]
        r2 == IF state.position.enps # {} /\ Only(state.position.enps) = dest
              THEN remove(r1, with_file(from, file(Only(state.position.enps))))
              ELSE r1
        r3 == IF Abs(rank(from) - rank(dest)) >= 1
              THEN [r2 EXCEPT !.enps = {Only(try_offset(from, 0, pawn_dir(state.turn)))}]
              ELSE r2
    IN  IF promote # {} THEN set(r3, dest, Only(promote), state.turn)
        ELSE set(r3, dest, Pawn, state.turn)

\* play_unchecked, pawn branch (lines 102-129).
play_pawn(state, result, from, dest, promote) ==
    LET r1 == [result EXCEPT !.halfmoves = 0]
        r2 == IF state.position.enps # {} /\ Only(state.position.enps) = dest
              THEN remove(r1, with_file(from, file(Only(state.position.enps))))
              ELSE r1
        r3 == IF Abs(rank(from) - rank(dest)) > 1
              THEN [r2 EXCEPT !.enps = {Only(try_offset(from, 0, pawn_dir(state.turn)))}]
              ELSE r2
    IN  IF promote # {} THEN set(r3, dest, Only(promote), state.turn)
        ELSE set(r3, dest, Pawn, state.turn)

\* play_unchecked, king branch: one iteration of the loop over the castle
\* directions (lines 135-163).  acc = [result, castle, castled].
play_king_dir(state, acc, from, dest, dir) ==
    LET castle1 == lose(acc.castle, state.turn, dir, state.fullmoves)
    IN  IF /\ has_castle(castle1, state.turn, state.fullmoves, dir)
           /\ dest \in castle_play_mask(castle1, state.turn, dir)
        THEN LET rook    == rook_square(castle1, state.turn, dir)
                 targets == target_squares(state.turn, dir)
                 r1      == remove(remove(acc.result, from), rook)
                 r2      == set(r1, targets[1], King, state.turn)
                 r3      == set(r2, targets[2], Rook, state.turn)
             IN  [result |-> r3, castle |-> castle1, castled |-> TRUE]
        ELSE [acc EXCEPT !.castle = castle1]

\* play_unchecked, king branch (lines 130-185): <<position, castle rights>>.
play_king(state, result, castle, from, dest) ==
    LET a0 == [result |-> result, castle |-> castle, castled |-> FALSE]
        a1 == play_king_dir(state, a0, from, dest, Short)
        a2 == play_king_dir(state, a1, from, dest, Long)
    IN  IF ~a2.castled
        THEN <<[set(a2.result, dest, King, state.turn) EXCEPT
                   !.halfmoves = IF displaced(a2.result, dest) # {} THEN 0
                                 ELSE inc_u8(a2.result.halfmoves)],
               a2.castle>>
        ELSE <<[a2.result EXCEPT !.halfmoves = inc_u8(@)], a2.castle>>

\* play_unchecked, rook moves (lines 188-200): the loop over [Long, Short]
\* that stops at the first direction it loses.
play_rook_castle(state, castle, from) ==
    IF /\ has_castle(state.castle, state.turn, state.fullmoves, Long)
       /\ from = rook_square(state.castle, state.turn, Long)
    THEN lose(castle, state.turn, Long, state.fullmoves)
    ELSE IF /\ has_castle(state.castle, state.turn, state.fullmoves, Short)
            /\ from = rook_square(state.castle, state.turn, Short)
    THEN lose(castle, state.turn, Short, state.fullmoves)
    ELSE castle

\* play_unchecked, the other pieces (lines 186-209): <<position, castle rights>>.
play_other(state, result, castle, piece, from, dest) ==
    <<[set(result, dest, piece, state.turn) EXCEPT
          !.halfmoves = IF displaced(result, dest) # {} THEN 0
                        ELSE inc_u8(result.halfmoves)],
      IF piece = Rook THEN play_rook_castle(state, castle, from) ELSE castle>>

\* BoardState::play_unchecked
play_unchecked(state, from, dest, promote) ==
    LET result0 == remove([state.position EXCEPT !.enps = {}], from)
        p       == piece_at(state.position, from)
        pc      == IF p = {} THEN <<result0, state.castle>>
                   ELSE IF Only(p)[2] = Pawn
                   THEN <<play_pawn(state, result0, from, dest, promote), state.castle>>
                   ELSE IF Only(p)[2] = King
                   THEN play_king(state, result0, state.castle, from, dest)
                   ELSE play_other(state, result0, state.castle, Only(p)[2], from, dest)
    IN  [position  |-> pc[1],
         castle    |-> pc[2],
         fullmoves |-> IF state.turn = White THEN state.fullmoves
                       ELSE inc_u16(state.fullmoves),
         turn      |-> Not(state.turn)]

\* Position::default
PositionDefault ==
    [masks |-> [i \in 0..7 |->
                  <<0..15, 48..63, (8..15) \cup (48..55), {4, 60}, {0, 56, 7, 63},
                    {1, 57, 6, 62}, {2, 58, 5, 61}, {3, 59}>>[i + 1]],
     enps |-> {}, halfmoves |-> 0]

\* BoardState::default
BoardStateDefault ==
    [position |-> PositionDefault, castle |-> CastleDefault, fullmoves |-> 1,
     turn |-> White]

(***************************************************************************)
(* States built by BoardState::from_fen.  A board field is written as its  *)
(* eight ranks, rank 8 first, one character per square ("." for an empty   *)
(* square, i.e. the digits of the FEN expanded).                           *)
(***************************************************************************)
PieceIds == <<"p", "k", "r", "n", "b", "q">>

UpperIds == <<"P", "K", "R", "N", "B", "Q">>

\* The squares of the board field that hold one of the characters cs;
\* character k of FEN rank r lands on file k, rank 7 - r (FenParser::position).
squares_of(rows, cs) ==
    {SquareNew(f, 7 - r) : <<f, r>> \in {<<x, y>> \in (0..7) \X (0..7) :
                                            rows[y + 1][x + 1] \in cs}}

\* FenParser::position
fen_position(rows, enps, halfmoves) ==
    [masks |-> [i \in 0..7 |->
                  IF i = White THEN squares_of(rows, {UpperIds[k] : k \in 1..6})
                  ELSE IF i = Black THEN squares_of(rows, {PieceIds[k] : k \in 1..6})
                  ELSE squares_of(rows, {PieceIds[i - 1], UpperIds[i - 1]})],
     enps |-> enps, halfmoves |-> halfmoves]

\* FenParser::castle for a classical castling field, given as the set of
\* its <<colour, direction>> rights ({} for "-").
RECURSIVE give_all(_, _)
give_all(castle, rs) ==
    IF rs = {} THEN castle
    ELSE LET r == CHOOSE x \in rs : TRUE
         IN  give_all(give(castle, r[1], r[2]), rs \ {r})

fen_castle(rs) == give_all(CastleNone, rs)

KQkq == {<<White, Short>>, <<White, Long>>, <<Black, Short>>, <<Black, Long>>}

\* BoardState::from_fen
from_fen(rows, turn, rs, enps, halfmoves, fullmoves) ==
    [position  |-> fen_position(rows, enps, halfmoves),
     castle    |-> fen_castle(rs),
     fullmoves |-> fullmoves,
     turn      |-> turn]

\* "r3k2r/8/8/8/8/8/8/R3K1NR w KQkq - 0 1"
FenCastle ==
    from_fen(<< <<"r", ".", ".", ".", "k", ".", ".", "r">>,
                <<".", ".", ".", ".", ".", ".", ".", ".">>,
                <<".", ".", ".", ".", ".", ".", ".", ".">>,
                <<".", ".", ".", ".", ".", ".", ".", ".">>,
                <<".", ".", ".", ".", ".", ".", ".", ".">>,
                <<".", ".", ".", ".", ".", ".", ".", ".">>,
                <<".", ".", ".", ".", ".", ".", ".", ".">>,
                <<"R", ".", ".", ".", "K", ".", "N", "R">> >>,
             White, KQkq, {}, 0, 1)

\* "4r1k1/8/8/4n3/8/8/6P1/3QK3 b - - 0 1": the knight move e5-f3 or e5-d3
\* gives a double check.
FenDouble ==
    from_fen(<< <<".", ".", ".", ".", "r", ".", "k", ".">>,
                <<".", ".", ".", ".", ".", ".", ".", ".">>,
                <<".", ".", ".", ".", ".", ".", ".", ".">>,
                <<".", ".", ".", ".", "n", ".", ".", ".">>,
                <<".", ".", ".", ".", ".", ".", ".", ".">>,
                <<".", ".", ".", ".", ".", ".", ".", ".">>,
                <<".", ".", ".", ".", ".", ".", "P", ".">>,
                <<".", ".", ".", "Q", "K", ".", ".", ".">> >>,
             Black, {}, {}, 0, 1)

\* "2r2k1r/p1p3b1/1p1p1n2/3PppBp/2P5/2N2N2/PP2QPPP/R3K2R w - e6 0 1"
\* (tests::generate_0 of generator.rs).
FenEnPassant ==
    from_fen(<< <<".", ".", "r", ".", ".", "k", ".", "r">>,
                <<"p", ".", "p", ".", ".", ".", "b", ".">>,
                <<".", "p", ".", "p", ".", "n", ".", ".">>,
                <<".", ".", ".", "P", "p", "p", "B", "p">>,
                <<".", ".", "P", ".", ".", ".", ".", ".">>,
                <<".", ".", "N", ".", ".", "N", ".", ".">>,
                <<"P", "P", ".", ".", "Q", "P", "P", "P">>,
                <<"R", ".", ".", ".", "K", ".", ".", "R">> >>,
             White, {}, {SquareNew(4, 5)}, 0, 1)

\* "7k/8/8/K2Pp2r/8/8/8/8 w - e6 0 1": capturing en passant opens the fifth
\* rank for the rook.
FenEnPassantPinned ==
    from_fen(<< <<".", ".", ".", ".", ".", ".", ".", "k">>,
                <<".", ".", ".", ".", ".", ".", ".", ".">>,
                <<".", ".", ".", ".", ".", ".", ".", ".">>,
                <<"K", ".", ".", "P", "p", ".", ".", "r">>,
                <<".", ".", ".", ".", ".", ".", ".", ".">>,
                <<".", ".", ".", ".", ".", ".", ".", ".">>,
                <<".", ".", ".", ".", ".", ".", ".", ".">>,
                <<".", ".", ".", ".", ".", ".", ".", ".">> >>,
             White, {}, {SquareNew(4, 5)}, 0, 1)

\* "7k/8/2n5/K2Pp2r/8/1n6/8/8 w - e6 0 1": a double check by two knights
\* with an en passant target.
FenDoubleEnPassant ==
    from_fen(<< <<".", ".", ".", ".", ".", ".", ".", "k">>,
                <<".", ".", ".", ".", ".", ".", ".", ".">>,
                <<".", ".", "n", ".", ".", ".", ".", ".">>,
                <<"K", ".", ".", "P", "p", ".", ".", "r">>,
                <<".", ".", ".", ".", ".", ".", ".", ".">>,
                <<".", "n", ".", ".", ".", ".", ".", ".">>,
                <<".", ".", ".", ".", ".", ".", ".", ".">>,
                <<".", ".", ".", ".", ".", ".", ".", ".">> >>,
             White, {}, {SquareNew(4, 5)}, 0, 1)

\* "4k3/P7/8/8/8/8/7p/4K3 w - - 0 1": pawns on the seventh and second rank.
FenSeventh ==
    from_fen(<< <<".", ".", ".", ".", "k", ".", ".", ".">>,
                <<"P", ".", ".", ".", ".", ".", ".", ".">>,
                <<".", ".", ".", ".", ".", ".", ".", ".">>,
                <<".", ".", ".", ".", ".", ".", ".", ".">>,
                <<".", ".", ".", ".", ".", ".", ".", ".">>,
                <<".", ".", ".", ".", ".", ".", ".", ".">>,
                <<".", ".", ".", ".", ".", ".", ".", "p">>,
                <<".", ".", ".", ".", "K", ".", ".", ".">> >>,
             White, {}, {}, 0, 1)

\* "r3k2r/8/8/8/8/5N2/8/R3K1R1 w KQkq - 0 1": FenCastle after the knight
\* has left g1 for f3 and the rook h1 has taken its place.
FenVacated ==
    from_fen(<< <<"r", ".", ".", ".", "k", ".", ".", "r">>,
                <<".", ".", ".", ".", ".", ".", ".", ".">>,
                <<".", ".", ".", ".", ".", ".", ".", ".">>,
                <<".", ".", ".", ".", ".", ".", ".", ".">>,
                <<".", ".", ".", ".", ".", ".", ".", ".">>,
                <<".", ".", ".", ".", ".", "N", ".", ".">>,
                <<".", ".", ".", ".", ".", ".", ".", ".">>,
                <<"R", ".", ".", ".", "K", ".", "R", ".">> >>,
             White, KQkq, {}, 0, 1)

\* "r3k2r/8/8/8/8/8/8/r3K1NR w KQkq - 0 1": FenCastle with a black rook on a1.
FenRecoloured ==
    from_fen(<< <<"r", ".", ".", ".", "k", ".", ".", "r">>,
                <<".", ".", ".", ".", ".", ".", ".", ".">>,
                <<".", ".", ".", ".", ".", ".", ".", ".">>,
                <<".", ".", ".", ".", ".", ".", ".", ".">>,
                <<".", ".", ".", ".", ".", ".", ".", ".">>,
                <<".", ".", ".", ".", ".", ".", ".", ".">>,
                <<".", ".", ".", ".", ".", ".", ".", ".">>,
                <<"r", ".", ".", ".", "K", ".", "N", "R">> >>,
             White, KQkq, {}, 0, 1)

\* The states a game is started from.
Roots ==
    {BoardStateDefault, FenCastle, FenDouble, FenEnPassant, FenEnPassantPinned,
     FenDoubleEnPassant, FenSeventh}

(***************************************************************************)
(* FEN text (fen.rs, BoardState::to_fen).  A string is the sequence of its *)
(* characters, each a one-character string.                                *)
(***************************************************************************)
Digits == <<"0", "1", "2", "3", "4", "5", "6", "7", "8", "9">>

LowerLetters ==
    <<"a", "b", "c", "d", "e", "f", "g", "h", "i", "j", "k", "l", "m",
      "n", "o", "p", "q", "r", "s", "t", "u", "v", "w", "x", "y", "z">>

UpperLetters ==
    <<"A", "B", "C", "D", "E", "F", "G", "H", "I", "J", "K", "L", "M",
      "N", "O", "P", "Q", "R", "S", "T", "U", "V", "W", "X", "Y", "Z">>

\* The position of character c in a table, None when it is not in it.
position_in(table, c) == {i \in 1..Len(table) : table[i] = c}

\* char::to_digit(10)
to_digit(c) == {i - 1 : i \in position_in(Digits, c)}

\* char::is_lowercase
is_lowercase(c) == position_in(LowerLetters, c) # {}

\* char::to_ascii_lowercase
to_ascii_lowercase(c) ==
    IF position_in(UpperLetters, c) # {}
    THEN LowerLetters[Only(position_in(UpperLetters, c))]
    ELSE c

\* char::to_ascii_uppercase
to_ascii_uppercase(c) ==
    IF position_in(LowerLetters, c) # {}
    THEN UpperLetters[Only(position_in(LowerLetters, c))]
    ELSE c

\* ToString of an unsigned integer: its decimal digits.
RECURSIVE to_string(_)
to_string(n) ==
    IF n < 10 THEN <<Digits[n + 1]>>
    ELSE to_string(n \div 10) \o <<Digits[(n % 10) + 1]>>

\* Color::to_char
color_to_char(color) == IF color = White THEN "w" ELSE "b"

\* Color::of_char
of_char(c) == IF is_lowercase(c) THEN Black ELSE White

\* Piece::id
id(piece, color) ==
    IF color = White THEN to_ascii_uppercase(PieceIds[piece + 1])
    ELSE PieceIds[piece + 1]

\* Piece::from_id
from_id(c) == {i - 1 : i \in position_in(PieceIds, to_ascii_lowercase(c))}

\* File::to_char_lower
to_char_lower(f) == LowerLetters[f + 1]

\* File::to_char_upper
to_char_upper(f) == UpperLetters[f + 1]

\* File::from_char
file_from_char(c) ==
    {i - 1 : i \in {k \in position_in(LowerLetters, to_ascii_lowercase(c)) : k <= 8}}

\* Rank::to_char
rank_to_char(r) == Digits[r + 2]

\* Rank::from_char
rank_from_char(c) == {d - 1 : d \in {k \in to_digit(c) : k >= 1 /\ k <= 8}}

\* Square::to_string_lower
to_string_lower(sq) == <<to_char_lower(file(sq)), rank_to_char(rank(sq))>>

\* Square::try_from_string
try_from_string(str) ==
    IF Len(str) = 2
    THEN {SquareNew(f, r) : <<f, r>> \in file_from_char(str[1]) \X rank_from_char(str[2])}
    ELSE {}

\* Position::to_char_grid: row g (1 = rank 8), column f + 1.  The loops run
\* over the piece types and, inside, the two colours; a later pair
\* overwrites an earlier one.
to_char_grid(pos) ==
    [g \in 1..8 |-> [x \in 1..8 |->
        LET sq     == SquareNew(x - 1, 8 - g)
            owners == {k \in 0..11 : sq \in pos.masks[2 + (k \div 2)]
                                            \cap color_mask(pos, k % 2)}
        IN  IF owners = {} THEN " "
            ELSE id(Max(owners) \div 2, Max(owners) % 2)]]

\* The inner loop of Position::board_as_fen_str over one rank of the grid.
RECURSIVE rank_as_fen_str(_, _, _)
rank_as_fen_str(row, i, counter) ==
    LET run == IF counter # 0 THEN to_string(counter) ELSE <<>>
    IN  IF i > Len(row) THEN run
        ELSE IF row[i] = " " THEN rank_as_fen_str(row, i + 1, counter + 1)
        ELSE run \o <<row[i]>> \o rank_as_fen_str(row, i + 1, 0)

\* The outer loop of Position::board_as_fen_str from grid row g on.
RECURSIVE ranks_as_fen_str(_, _)
ranks_as_fen_str(grid, g) ==
    rank_as_fen_str(grid[g], 1, 0)
        \o (IF g # 8 THEN <<"/">> \o ranks_as_fen_str(grid, g + 1) ELSE <<>>)

\* Position::board_as_fen_str
board_as_fen_str(pos) == ranks_as_fen_str(to_char_grid(pos), 1)

\* u16::MAX
U16_MAX == 65535

\* CastleRights::lost_all_castle
lost_all_castle(castle, color) ==
    rights(castle, color)[1] > -1 /\ rights(castle, color)[2] > -1

\* CastleDir::to_char
dir_to_char(dir) == IF dir = Long THEN "q" ELSE "k"

\* CastleRights::castle_dir_as_char
castle_dir_as_char(castle, color, dir) ==
    IF castle.kingside_file = FileH /\ castle.queenside_file = FileA
    THEN (IF color = White THEN to_ascii_uppercase(dir_to_char(dir))
          ELSE dir_to_char(dir))
    ELSE (IF color = White THEN to_char_upper(file(rook_square(castle, color, dir)))
          ELSE to_char_lower(file(rook_square(castle, color, dir))))

\* The (direction, colour) pairs in the order of the loops of
\* CastleRights::to_fen_string.
CastleLoop == <<<<Short, White>>, <<Short, Black>>, <<Long, White>>, <<Long, Black>>>>

\* The loops of CastleRights::to_fen_string from pair i on.
RECURSIVE castle_chars(_, _)
castle_chars(castle, i) ==
    IF i > Len(CastleLoop) THEN <<>>
    ELSE LET dir   == CastleLoop[i][1]
             color == CastleLoop[i][2]
         IN  (IF has_castle(castle, color, U16_MAX, dir)
              THEN <<castle_dir_as_char(castle, color, dir)>>
              ELSE <<>>) \o castle_chars(castle, i + 1)

\* CastleRights::to_fen_string
to_fen_string(castle) ==
    IF lost_all_castle(castle, White) /\ lost_all_castle(castle, Black)
    THEN <<"-">>
    ELSE castle_chars(castle, 1)

\* BoardState::to_fen
to_fen(s) ==
    board_as_fen_str(s.position) \o <<" ">>
        \o <<color_to_char(s.turn)>> \o <<" ">>
        \o to_fen_string(s.castle) \o <<" ">>
        \o (IF s.position.enps = {} THEN <<"-">>
            ELSE to_string_lower(Only(s.position.enps))) \o <<" ">>
        \o to_string(s.position.halfmoves) \o <<" ">>
        \o to_string(s.fullmoves)

\* Result: Ok(value) or Err(kind of FenParseError).
Ok(v) == [err |-> "Ok", val |-> v]

Err(kind) == [err |-> kind, val |-> {}]

\* FenParseError
FenParseError ==
    {"MissingInfo", "BadCastle", "BadPosition", "BadTurn", "BadEnPassant",
     "BadHalfmoves", "BadFullmoves", "MissingKings"}

\* str::split_ascii_whitespace: the non-empty runs of non-blank characters;
\* word is the run being read.
RECURSIVE split_ascii_whitespace(_, _, _)
split_ascii_whitespace(text, i, word) ==
    LET done == IF word = <<>> THEN <<>> ELSE <<word>>
    IN  IF i > Len(text) THEN done
        ELSE IF text[i] = " " THEN done \o split_ascii_whitespace(text, i + 1, <<>>)
        ELSE split_ascii_whitespace(text, i + 1, Append(word, text[i]))

\* FenParser::parse
parse(fen) ==
    LET fields == split_ascii_whitespace(fen, 1, <<>>)
    IN  IF Len(fields) = 6 THEN Ok(fields) ELSE Err("MissingInfo")

\* The digits of an unsigned integer read from the left; acc is the value
\* read so far, None when a character is not a digit.
RECURSIVE digits_value(_, _, _)
digits_value(str, i, acc) ==
    IF i > Len(str) THEN {acc}
    ELSE IF to_digit(str[i]) = {} THEN {}
    ELSE digits_value(str, i + 1, 10 * acc + Only(to_digit(str[i])))

\* str::parse::<u8> and str::parse::<u16>: an optional "+" and at least one
\* digit, the value not above max.
parse_unsigned(str, max) ==
    LET digits == IF str # <<>> /\ str[1] = "+" THEN Tail(str) ELSE str
    IN  IF digits = <<>> THEN {}
        ELSE {n \in digits_value(digits, 1, 0) : n <= max}

\* The loop of FenParser::position over the board field: index is the u8
\* cursor, masks the eight masks built so far.
RECURSIVE board_masks(_, _, _, _)
board_masks(str, i, index, masks) ==
    IF i > Len(str) THEN Ok(masks)
    ELSE LET c == str[i]
         IN  IF c = "/" THEN board_masks(str, i + 1, index, masks)
             ELSE IF to_digit(c) # {}
             THEN board_masks(str, i + 1, (index + Only(to_digit(c))) % 256, masks)
             ELSE IF from_id(c) # {} /\ index <= 63
             THEN LET square == SquareNew(index % 8, 7 - (index \div 8))
                  IN  board_masks(str, i + 1, index + 1,
                          [masks EXCEPT ![2 + Only(from_id(c))] = @ \cup {square},
                                        ![of_char(c)] = @ \cup {square}])
             ELSE Err("BadPosition")

\* FenParser::halfmoves
parser_halfmoves(fields) ==
    LET n == parse_unsigned(fields[5], 255)
    IN  IF n # {} /\ Only(n) <= 50 THEN Ok(Only(n)) ELSE Err("BadHalfmoves")

\* FenParser::fullmoves
parser_fullmoves(fields) ==
    LET n == parse_unsigned(fields[6], U16_MAX)
    IN  IF n # {} THEN Ok(Only(n)) ELSE Err("BadFullmoves")

\* FenParser::en_passant
parser_en_passant(fields) ==
    IF fields[4] = <<"-">> THEN Ok({})
    ELSE IF try_from_string(fields[4]) # {} THEN Ok(try_from_string(fields[4]))
    ELSE Err("BadEnPassant")

\* FenParser::turn
parser_turn(fields) ==
    IF fields[2] = <<"w">> THEN Ok(White)
    ELSE IF fields[2] = <<"b">> THEN Ok(Black)
    ELSE Err("BadTurn")

\* FenParser::position
parser_position(fields) ==
    LET masks == board_masks(fields[1], 1, 0, [i \in 0..7 |-> {}])
    IN  IF masks.err # "Ok" THEN masks
        ELSE IF parser_halfmoves(fields).err # "Ok" THEN parser_halfmoves(fields)
        ELSE IF parser_en_passant(fields).err # "Ok" THEN parser_en_passant(fields)
        ELSE Ok([masks |-> masks.val, enps |-> parser_en_passant(fields).val,
                 halfmoves |-> parser_halfmoves(fields).val])

\* The loop of FenParser::castle from character i on.
RECURSIVE castle_loop(_, _, _)
castle_loop(str, i, acc) ==
    IF i > Len(str) THEN Ok(acc)
    ELSE LET c == str[i]
         IN  IF to_ascii_lowercase(c) = "k"
             THEN castle_loop(str, i + 1, give(acc, of_char(c), Short))
             ELSE IF to_ascii_lowercase(c) = "q"
             THEN castle_loop(str, i + 1, give(acc, of_char(c), Long))
             ELSE Err("BadCastle")

\* FenParser::castle
parser_castle(fields) ==
    IF fields[3] = <<"-">> THEN Ok(CastleNone)
    ELSE castle_loop(fields[3], 1, CastleNone)

\* FenParser::castle_is_shredder
castle_is_shredder(fields) ==
    \A i \in 1..Len(fields[3]) : fields[3][i] \notin {"K", "Q", "k", "q", "-"}

\* The loop of FenParser::castle_as_shredder from character i on.
RECURSIVE shredder_loop(_, _, _, _, _)
shredder_loop(str, i, acc, white_king, black_king) ==
    IF i > Len(str) THEN Ok(acc)
    ELSE LET c == str[i]
         IN  IF file_from_char(c) # {}
             THEN LET f   == Only(file_from_char(c))
                      dir == IF of_char(c) = White THEN white_king ELSE black_king
                  IN  shredder_loop(str, i + 1,
                          give(acc, of_char(c), IF f - dir > 0 THEN Short ELSE Long),
                          white_king, black_king)
             ELSE Err("BadCastle")

\* FenParser::castle_as_shredder
castle_as_shredder(fields, white_king, black_king) ==
    IF fields[3] = <<"-">> THEN Ok(CastleNone)
    ELSE shredder_loop(fields[3], 1, CastleNone, white_king, black_king)

\* The castle rights BoardState::from_fen reads for a parsed position.
from_fen_castle(fields, pos) ==
    IF castle_is_shredder(fields)
    THEN LET white_kings == kings(pos) \cap color_mask(pos, White)
             black_kings == kings(pos) \cap color_mask(pos, Black)
         IN  IF white_kings = {} \/ black_kings = {} THEN Err("MissingKings")
             ELSE castle_as_shredder(fields, file(Only(first(white_kings))),
                                     file(Only(first(black_kings))))
    ELSE parser_castle(fields)

\* BoardState::from_fen of a FEN text.
from_fen_str(fen) ==
    LET parser == parse(fen)
    IN  IF parser.err # "Ok" THEN parser
        ELSE LET fields == parser.val
                 pos    == parser_position(fields)
             IN  IF pos.err # "Ok" THEN pos
                 ELSE LET castle == from_fen_castle(fields, pos.val)
                      IN  IF castle.err # "Ok" THEN castle
                          ELSE IF parser_fullmoves(fields).err # "Ok"
                          THEN parser_fullmoves(fields)
                          ELSE IF parser_turn(fields).err # "Ok"
                          THEN parser_turn(fields)
                          ELSE Ok([position  |-> pos.val,
                                   castle    |-> castle.val,
                                   fullmoves |-> parser_fullmoves(fields).val,
                                   turn      |-> parser_turn(fields).val])

(***************************************************************************)
(* ChessGame (game.rs): [first, last, history], the history a sequence of  *)
(* Positions; index i of the Vec is element i + 1 of the sequence.         *)
(***************************************************************************)
\* CastleRights::index
castle_index(castle, fullmoves) ==
    LET at(lost) == IF as_i16(fullmoves) < lost THEN -1 ELSE lost
    IN  [kingside_file  |-> castle.kingside_file,
         queenside_file |-> castle.queenside_file,
         white_lost     |-> <<at(castle.white_lost[1]), at(castle.white_lost[2])>>,
         black_lost     |-> <<at(castle.black_lost[1]), at(castle.black_lost[2])>>]

\* ChessGame::fullmoves_at_index
fullmoves_at_index(g, index) ==
    (g.first.fullmoves + (IF g.first.turn = Black THEN (index + 3) \div 2
                          ELSE (index + 2) \div 2)) % 65536

\* ChessGame::castle_rights_at_index
castle_rights_at_index(g, index) == castle_index(g.last.castle, index)

\* ChessGame::turn_at_index
turn_at_index(g, index) ==
    IF g.first.turn = White
    THEN (IF index % 2 # 0 THEN Black ELSE White)
    ELSE (IF index % 2 = 0 THEN Black ELSE White)

\* ChessGame::state_at_index: None past the end of the history.
state_at_index(g, index) ==
    IF index < Len(g.history)
    THEN {[position  |-> g.history[index + 1],
           castle    |-> castle_rights_at_index(g, index),
           fullmoves |-> fullmoves_at_index(g, index),
           turn      |-> turn_at_index(g, index)]}
    ELSE {}

\* ChessGame::fork: None past the end of the history.
fork(g, index) ==
    IF index >= Len(g.history) THEN {}
    ELSE {[first   |-> g.first,
           last    |-> Only(state_at_index(g, index)),
           history |-> SubSeq(g.history, 1, index)]}

\* ChessGame::clear_after: the game after the call.
clear_after(g, index) ==
    IF index < Len(g.history)
    THEN [first   |-> g.first,
          last    |-> Only(state_at_index(g, index)),
          history |-> SubSeq(g.history, index + 1, Len(g.history))]
    ELSE g

\* ChessGame::play: the game after the call.
play_game(g, from, dest, promotion) ==
    LET played == play_unchecked(g.last, from, dest, promotion)
    IN  [first   |-> g.first,
         last    |-> played,
         history |-> Append(g.history, played.position)]

\* Position::count
count(pos) == Cardinality(pos.masks[White]) + Cardinality(pos.masks[Black])

\* An is_draw_by_repetition that returns at the first earlier position
\* equal to the last one.
RECURSIVE repetition_scan_once(_, _, _)
repetition_scan_once(g, i, one) ==
    IF i < 1 THEN FALSE
    ELSE LET pos == g.history[i]
         IN  IF pawns(pos) # pawns(g.last.position) THEN FALSE
             ELSE IF count(pos) # count(g.last.position) THEN FALSE
             ELSE IF pos.masks = g.last.position.masks THEN TRUE
             ELSE repetition_scan_once(g, i - 1, one)

\* The loop of ChessGame::is_draw_by_repetition from history element i down
\* to the first; one is the flag of the source.
RECURSIVE repetition_scan(_, _, _)
repetition_scan(g, i, one) ==
    IF i < 1 THEN FALSE
    ELSE LET pos == g.history[i]
         IN  IF pawns(pos) # pawns(g.last.position) THEN FALSE
             ELSE IF count(pos) # count(g.last.position) THEN FALSE
             ELSE IF pos.masks = g.last.position.masks
             THEN (IF one THEN TRUE ELSE repetition_scan(g, i - 1, TRUE))
             ELSE repetition_scan(g, i - 1, one)

\* ChessGame::is_draw_by_repetition: the scan runs over the history in
\* reverse and skips its last element.
is_draw_by_repetition(g) == repetition_scan(g, Len(g.history) - 1, FALSE)

(***************************************************************************)
(* BoardState::notation (state.rs): the notation of a move as a string.    *)
(***************************************************************************)
\* Position::pieces_that_see_square: the source keeps a candidate when the
\* squares between it and the square intersect the blockers.
pieces_that_see_square(pos, square, piece, color) ==
    {candidate \in relevant_squares(piece, square, color)
                      \cap (pos.masks[2 + piece] \cap color_mask(pos, color)) :
        intersects(BETWEEN[square][candidate], occupied(pos))}

\* MoveString::from(..).unwrap_or_default(): a text of more than 7
\* characters does not fit and gives the empty string.
move_string(str) == IF Len(str) > 7 THEN <<>> ELSE str

\* The promotion suffix of the pawn branch of BoardState::notation.
promotion_suffix(promote, color) ==
    IF promote # {} THEN <<"=", id(Only(promote), color)>> ELSE <<>>

\* The pawn branch of BoardState::notation.
notation_pawn(from, dest, promote, color) ==
    IF file(from) # file(dest)
    THEN <<to_char_lower(file(from)), "x">> \o to_string_lower(dest)
             \o promotion_suffix(promote, color)
    ELSE to_string_lower(dest) \o promotion_suffix(promote, color)

\* The directions in which the king branch of BoardState::notation finds a
\* castle: the right is reported by has_castle and dest is in the play mask.
notation_castle_dirs(s, dest, color) ==
    {dir \in CastleDir :
        /\ has_castle(s.castle, color, s.fullmoves, dir)
        /\ dest \in castle_play_mask(s.castle, color, dir)}

\* A castle text with the letter of White for both colours.
notation_castle_upper(color, dir) ==
    <<"O", "-", "O">> \o (IF dir = Long THEN <<"-", "O">> ELSE <<>>)

\* The castle text of BoardState::notation for colour and direction.
notation_castle(color, dir) ==
    LET o == IF color = White THEN "O" ELSE "o"
    IN  <<o, "-", o>> \o (IF dir = Long THEN <<"-", o>> ELSE <<>>)

\* The king branch of BoardState::notation; the loop tries Long first.
notation_king(s, dest, color) ==
    LET dirs == notation_castle_dirs(s, dest, color)
    IN  IF Long \in dirs THEN notation_castle(color, Long)
        ELSE IF Short \in dirs THEN notation_castle(color, Short)
        ELSE IF piece_at(s.position, dest) # {}
        THEN <<id(King, color), "x">> \o to_string_lower(dest)
        ELSE <<id(King, color)>> \o to_string_lower(dest)

\* The branch of BoardState::notation for the other pieces.
notation_other(s, from, dest, piece, color) ==
    LET conflicts == pieces_that_see_square(s.position, dest, piece, color) \ {from}
        prefix    == IF conflicts = {} THEN <<>>
                     ELSE IF Cardinality(conflicts) = 1
                     THEN (IF file(from) = file(Only(first(conflicts)))
                           THEN <<rank_to_char(rank(from))>>
                           ELSE <<to_char_lower(file(from))>>)
                     ELSE to_string_lower(from)
    IN  IF piece_at(s.position, dest) # {}
        THEN prefix \o <<id(piece, color), "x">> \o to_string_lower(dest)
        ELSE prefix \o <<id(piece, color)>> \o to_string_lower(dest)

\* BoardState::notation
notation(s, from, dest, promote) ==
    LET p == piece_at(s.position, from)
    IN  IF p = {} THEN move_string(<<>>)
        ELSE LET color == Only(p)[1]
                 piece == Only(p)[2]
             IN  IF piece = King
                 THEN move_string(notation_king(s, dest, color))
                 ELSE IF piece = Pawn
                 THEN move_string(notation_pawn(from, dest, promote, color))
                 ELSE move_string(notation_other(s, from, dest, piece, color))

(***************************************************************************)
(* The state machine: a board state to which generated moves are applied.  *)
(***************************************************************************)
\* Bounds of the model: the plies played from a root, and from the default
\* start position alone.
MaxPly == 2

MaxPlyStart == 3

\* The pieces a caller promotes to.
PromotionChoices == {Queen, Knight}

VARIABLES
    state,      \* the BoardState
    ply,        \* the number of moves played
    panicked,   \* the program has panicked
    kingMoved,  \* per colour: play_unchecked has moved its king
    diff,       \* a run of Position::changes and of the Position::change calls
                \* that apply its edits
    fen,        \* a FEN text passed to BoardState::from_fen, the error kind
                \* of the result, and the text BoardState::to_fen wrote
    game,       \* a ChessGame
    call        \* the last query a caller made of the state: its name, its
                \* arguments and its result

vars == <<state, ply, panicked, kingMoved, diff, fen, game, call>>

\* No query has been made.
NoCall == [op |-> "", args |-> <<>>, result |-> <<>>]

\* No run of Position::changes has been started.
NoDiff ==
    [active |-> FALSE, from |-> PositionDefault, to |-> PositionDefault,
     edits |-> <<>>, next |-> 1, board |-> PositionDefault]

\* No FEN text has been parsed or written.
NoFen == [input |-> <<>>, text |-> <<>>, err |-> "", written |-> <<>>]

\* ChessGame::default
ChessGameDefault ==
    [first |-> BoardStateDefault, last |-> BoardStateDefault,
     history |-> <<PositionDefault>>]

\* The promotion argument a caller passes with a move.
Promotions(s, from, dest) ==
    IF move_requires_promotion(s, from, dest)
    THEN {{p} : p \in PromotionChoices}
    ELSE {{}}

\* The moves the generator of s validates: <<from, dest, promote>>.
GeneratedMoves(s) ==
    LET g == generator(s)
    IN  UNION {UNION {{<<from, dest, pr>> : pr \in Promotions(s, from, dest)} :
                        dest \in generate(g, from)} :
                 from \in Square}

\* Constructing the generator of s, or generating for one of its squares,
\* can panic: no king to move, or the invalid transmute of try_offset taken
\* as a value (Square::new then unwraps None).
generator_can_panic(s) ==
    \/ new_panics(s.position, s.turn)
    \/ new_invalid(s.position, s.turn)
    \/ /\ ~new_panics(s.position, s.turn)
       /\ \E sq \in Square : generate_invalid(generator(s), sq)

InitAt(roots) ==
    /\ state \in roots
    /\ ply = 0
    /\ panicked = FALSE
    /\ kingMoved = [c \in Color |-> FALSE]
    /\ diff = NoDiff
    /\ fen = NoFen
    /\ game = ChessGameDefault
    /\ call = NoCall

Init == InitAt(Roots)

InitStart == InitAt({BoardStateDefault})

\* A caller plays a move of the generator (ChessGame::play).
PlayUpTo(bound) ==
    /\ ~panicked
    /\ ~diff.active
    /\ call = NoCall
    /\ ply < bound
    /\ ~new_panics(state.position, state.turn)
    /\ \E m \in GeneratedMoves(state) :
          /\ state' = play_unchecked(state, m[1], m[2], m[3])
          /\ kingMoved' = [kingMoved EXCEPT ![state.turn] =
                              @ \/ piece_at(state.position, m[1]) = {<<state.turn, King>>}]
    /\ ply' = ply + 1
    /\ UNCHANGED <<panicked, diff, fen, game, call>>

Play == PlayUpTo(MaxPly)

PlayStart == PlayUpTo(MaxPlyStart)

\* The generator panics.
Panic ==
    /\ ~panicked
    /\ ply < MaxPly
    /\ generator_can_panic(state)
    /\ panicked' = TRUE
    /\ UNCHANGED <<state, ply, kingMoved, diff, fen, game, call>>

Next == Play \/ Panic

NextStart == PlayStart

Spec == Init /\ [][Next]_vars

SpecStart == InitStart /\ [][NextStart]_vars

(***************************************************************************)
(* Position::changes between the position of a game and a later position,  *)
(* and the Position::change calls that apply the edits one by one.         *)
(***************************************************************************)
\* Bound: the plies played before a run of Position::changes.
MaxPlyChanges == 2

\* The states the games of SpecChanges start from.
ChangeRoots == {FenCastle, FenDouble, FenEnPassantPinned}

\* The positions a caller compares the position of s with: the position
\* after each generated move, and two fixed positions.
ChangeTargets(s) ==
    {play_unchecked(s, m[1], m[2], m[3]).position : m \in GeneratedMoves(s)}
        \cup {FenVacated.position, FenRecoloured.position}

InitChanges == InitAt(ChangeRoots)

PlayChanges == PlayUpTo(MaxPlyChanges)

\* A caller computes self.changes(other) for the position of the game.
Changes ==
    /\ ~panicked
    /\ ~diff.active
    /\ ply < MaxPlyChanges
    /\ ~new_panics(state.position, state.turn)
    /\ \E other \in ChangeTargets(state) :
          diff' = [active |-> TRUE, from |-> state.position, to |-> other,
                   edits |-> changes(state.position, other), next |-> 1,
                   board |-> state.position]
    /\ UNCHANGED <<state, ply, panicked, kingMoved, fen, game, call>>

\* The caller applies the next edit with Position::change.
Change ==
    /\ diff.active
    /\ diff.next <= Len(diff.edits)
    /\ diff' = [diff EXCEPT !.board = change(@, diff.edits[diff.next]),
                            !.next = @ + 1]
    /\ UNCHANGED <<state, ply, panicked, kingMoved, fen, game, call>>

NextChanges == PlayChanges \/ Changes \/ Change

SpecChanges == InitChanges /\ [][NextChanges]_vars

(***************************************************************************)
(* BoardState::from_fen and BoardState::to_fen on FEN texts a caller       *)
(* passes: six fields, each well formed or malformed in one way, with a    *)
(* field dropped or added.                                                 *)
(***************************************************************************)
\* Board fields: kings only; rooks on the b and g files; no white king; an
\* unknown character; a piece after the 64th square; a rank of seven
\* squares; the digit 0.
BoardFields ==
    {<<"4", "k", "3", "/", "8", "/", "8", "/", "8", "/", "8", "/", "8", "/", "8", "/", "4", "K", "3">>,
     <<"1", "r", "2", "k", "1", "r", "1", "/", "8", "/", "8", "/", "8", "/", "8", "/", "8", "/", "8", "/", "1", "R", "2", "K", "1", "R", "1">>,
     <<"4", "k", "3", "/", "8", "/", "8", "/", "8", "/", "8", "/", "8", "/", "8", "/", "8">>,
     <<"4", "k", "3", "/", "8", "/", "8", "/", "8", "/", "8", "/", "8", "/", "8", "/", "4", "X", "3">>,
     <<"4", "k", "3", "/", "8", "/", "8", "/", "8", "/", "8", "/", "8", "/", "8", "/", "8", "K">>,
     <<"4", "k", "3", "/", "8", "/", "8", "/", "8", "/", "8", "/", "8", "/", "8", "/", "4", "K", "2">>,
     <<"4", "k", "3", "/", "8", "/", "8", "/", "8", "/", "8", "/", "8", "/", "8", "/", "4", "K", "0", "3">>}

\* Turn fields.
TurnFields ==
    {<<"w">>,
     <<"b">>,
     <<"x">>}

\* Castling fields: classical, classical with a bad character, Shredder
\* (rook files), Shredder with a bad character.
CastleFields ==
    {<<"-">>,
     <<"K", "Q", "k", "q">>,
     <<"K", "q">>,
     <<"K", "x">>,
     <<"K", "g">>,
     <<"G", "B", "g", "b">>,
     <<"G", "b">>,
     <<"H", "A", "h", "a">>,
     <<"G", "z">>}

\* En passant fields.
EnPassantFields ==
    {<<"-">>,
     <<"e", "3">>,
     <<"e", "9">>,
     <<"e", "3", "3">>}

\* Halfmove fields.
HalfmoveFields ==
    {<<"0">>,
     <<"5", "0">>,
     <<"5", "1">>,
     <<"x">>}

\* Fullmove fields.
FullmoveFields ==
    {<<"1">>,
     <<"x">>}


\* The texts a caller passes, as their fields: six fields, the six without
\* the last, and the six with a seventh.
FenInputs ==
    LET six == {<<b, t, c, e, h, f>> :
                   b \in BoardFields, t \in TurnFields, c \in CastleFields,
                   e \in EnPassantFields, h \in HalfmoveFields, f \in FullmoveFields}
    IN  six \cup {SubSeq(x, 1, 5) : x \in six} \cup {Append(x, <<"1">>) : x \in six}

\* The fields joined by single blanks.
RECURSIVE join(_)
join(fields) ==
    IF fields = <<>> THEN <<>>
    ELSE IF Len(fields) = 1 THEN fields[1]
    ELSE fields[1] \o <<" ">> \o join(Tail(fields))

InitFen == InitAt({BoardStateDefault})

\* A caller parses a text with BoardState::from_fen; on Ok the state parsed
\* is the state of the caller from then on.
FromFen ==
    /\ fen = NoFen
    /\ \E input \in FenInputs :
          LET result == from_fen_str(join(input))
          IN  /\ fen' = [input |-> input, text |-> join(input),
                         err |-> result.err, written |-> <<>>]
              /\ state' = IF result.err = "Ok" THEN result.val ELSE state
    /\ UNCHANGED <<ply, panicked, kingMoved, diff, game, call>>

\* The caller serialises its state with BoardState::to_fen.
ToFen ==
    /\ fen.written = <<>>
    /\ fen' = [fen EXCEPT !.written = to_fen(state)]
    /\ UNCHANGED <<state, ply, panicked, kingMoved, diff, game, call>>

NextFen == FromFen \/ ToFen

SpecFen == InitFen /\ [][NextFen]_vars

(***************************************************************************)
(* A ChessGame that is played, cut with clear_after and forked.            *)
(***************************************************************************)
\* Bound: the moves played in a game.
MaxPlyGame == 2

InitGame == InitAt({BoardStateDefault})

\* ChessGame::play with a move of the generator of the last state.
GamePlay ==
    /\ ply < MaxPlyGame
    /\ ~new_panics(game.last.position, game.last.turn)
    /\ \E m \in GeneratedMoves(game.last) : game' = play_game(game, m[1], m[2], m[3])
    /\ ply' = ply + 1
    /\ UNCHANGED <<state, panicked, kingMoved, diff, fen, call>>

\* ChessGame::clear_after at an index of the history or one past it.
ClearAfter ==
    /\ \E index \in 0..Len(game.history) : game' = clear_after(game, index)
    /\ UNCHANGED <<state, ply, panicked, kingMoved, diff, fen, call>>

\* ChessGame::fork at an index for which it returns a game; the caller goes
\* on with the fork.
Fork ==
    /\ \E index \in 0..Len(game.history) :
          /\ fork(game, index) # {}
          /\ game' = Only(fork(game, index))
    /\ UNCHANGED <<state, ply, panicked, kingMoved, diff, fen, call>>

NextGame == GamePlay \/ ClearAfter \/ Fork

SpecGame == InitGame /\ [][NextGame]_vars

(***************************************************************************)
(* A game in which the players shuffle a few pieces, long enough for a     *)
(* position to come back twice.                                            *)
(***************************************************************************)
\* Bound: the moves played in such a game.
MaxPlyRepetition == 9

\* The squares the moves of such a game start and end on: g1, f3, g8, f6,
\* and e2, e4, e7, e5.
ShuffleSquares == {6, 21, 62, 45, 12, 28, 52, 36}

\* ChessGame::play with a generated move between two of the squares.
ShufflePlay ==
    /\ ply < MaxPlyRepetition
    /\ ~new_panics(game.last.position, game.last.turn)
    /\ \E m \in GeneratedMoves(game.last) :
          /\ m[1] \in ShuffleSquares
          /\ m[2] \in ShuffleSquares
          /\ game' = play_game(game, m[1], m[2], m[3])
    /\ ply' = ply + 1
    /\ UNCHANGED <<state, panicked, kingMoved, diff, fen, call>>

NextRepetition == ShufflePlay

SpecRepetition == InitGame /\ [][NextRepetition]_vars

(***************************************************************************)
(* BoardState::notation asked of the state of a game.                      *)
(***************************************************************************)
\* Bound: the moves played before the notation of a move is asked.
MaxPlyNotation == 1

\* The states the games of SpecNotation start from.
NotationRoots == {BoardStateDefault, FenCastle, FenEnPassant, FenSeventh}

\* The king moves a caller asks the notation of: the king of either colour
\* to a square next to it or to a square of a castle play mask.
KingRequests(s) ==
    UNION {{<<from, dest, {}>> :
               dest \in (KING[from]
                           \cup UNION {castle_play_mask(s.castle, c, dir) : dir \in CastleDir})
                        \ {from}} :
             <<from, c>> \in {<<k, col>> \in Square \X Color :
                                 k \in kings(s.position) \cap color_mask(s.position, col)}}

\* The moves a caller asks the notation of: the generated moves and the
\* king moves above.
NotationRequests(s) == GeneratedMoves(s) \cup KingRequests(s)

InitNotation == InitAt(NotationRoots)

PlayNotation == PlayUpTo(MaxPlyNotation)

\* A caller asks BoardState::notation of a move.
Notation ==
    /\ ~panicked
    /\ call = NoCall
    /\ ~new_panics(state.position, state.turn)
    /\ \E m \in NotationRequests(state) :
          call' = [op |-> "notation", args |-> m,
                   result |-> notation(state, m[1], m[2], m[3])]
    /\ UNCHANGED <<state, ply, panicked, kingMoved, diff, fen, game>>

NextNotation == PlayNotation \/ Notation

SpecNotation == InitNotation /\ [][NextNotation]_vars

(***************************************************************************)
(* Games from a position in which both colours hold both castling rights,  *)
(* long enough for a right to be lost on one fullmove and asked for on the *)
(* next.                                                                   *)
(***************************************************************************)
MaxPlyFrame == 3

InitFrame == InitAt({FenCastle})

PlayFrame == PlayUpTo(MaxPlyFrame)

NextFrame == PlayFrame

SpecFrame == InitFrame /\ [][NextFrame]_vars

(***************************************************************************)
(* BoardState::play_unchecked called with a move no generator validated:   *)
(* the from square holds no piece.                                         *)
(***************************************************************************)
MaxPlyUnchecked == 1

UncheckedRoots == {BoardStateDefault, FenEnPassant}

\* The moves from an empty square that a caller passes: to a neighbouring
\* square, with and without a promotion piece.
UncheckedMoves(s) ==
    {<<from, dest, pr>> \in Square \X Square \X ({{}} \cup {{p} : p \in PromotionChoices}) :
        /\ piece_at(s.position, from) = {}
        /\ dest \in KING[from]}

InitUnchecked == InitAt(UncheckedRoots)

PlayChecked == PlayUpTo(MaxPlyUnchecked)

\* BoardState::play_unchecked(from, dest, promote) on the state, from empty.
PlayUnchecked ==
    /\ ~panicked
    /\ call = NoCall
    /\ \E m \in UncheckedMoves(state) :
          call' = [op |-> "play_unchecked", args |-> m,
                   result |-> play_unchecked(state, m[1], m[2], m[3])]
    /\ UNCHANGED <<state, ply, panicked, kingMoved, diff, fen, game>>

NextUnchecked == PlayChecked \/ PlayUnchecked

SpecUnchecked == InitUnchecked /\ [][NextUnchecked]_vars

(***************************************************************************)
(* The coordinate constructors of square.rs, called with numbers a caller  *)
(* may pass.  An outcome is [panic, val]: a panic, or the Option returned. *)
(* A transmute of 8 into File or Rank is undefined behaviour; the outcomes  *)
(* a build can produce are None (8 is the niche that stands for None) and  *)
(* Some of a ninth file or rank.                                           *)
(***************************************************************************)
MaxIdx == 70

OffsetSteps == {-1, 0, 1}

Returned(val) == [panic |-> FALSE, val |-> val]

Panicked == [panic |-> TRUE, val |-> {}]

\* File::try_idx: the Options a call can return.
file_try_idx(idx) ==
    IF idx > 8 THEN {{}}
    ELSE IF idx = 8 THEN {{}, {8}}
    ELSE {{idx}}

\* Rank::try_idx: the Options a call can return.
rank_try_idx(idx) ==
    IF idx > 8 THEN {{}}
    ELSE IF idx = 8 THEN {{}, {8}}
    ELSE {{idx}}

\* Square::try_idx
square_try_idx(idx) == IF idx > 63 THEN {} ELSE {idx}

\* Square::new on what try_idx returned: try_idx((rank << 3) | file).unwrap().
square_new_outcome(f, r) ==
    LET idx == IF f = 8 THEN 8 * (IF r % 2 = 0 THEN r + 1 ELSE r) ELSE 8 * r + f
    IN  IF square_try_idx(idx) = {} THEN Panicked ELSE Returned({idx})

\* Square::try_offset: the outcomes of a call.  try_into() fails for a
\* negative number, and then ? returns None.
try_offset_outcomes(sq, df, dr) ==
    LET f  == file(sq) + df
        r  == rank(sq) + dr
        fs == IF f < 0 THEN {{}} ELSE file_try_idx(f)
        rs == IF r < 0 THEN {{}} ELSE rank_try_idx(r)
    IN  {IF fo = {} \/ ro = {} THEN Returned({})
         ELSE square_new_outcome(Only(fo), Only(ro)) : <<fo, ro>> \in fs \X rs}

InitCoordinates == InitAt({BoardStateDefault})

\* File::try_idx(idx), Rank::try_idx(idx) or Square::try_idx(idx).
TryIdx ==
    /\ call = NoCall
    /\ \E idx \in 0..MaxIdx :
          \/ \E o \in file_try_idx(idx) :
                call' = [op |-> "File::try_idx", args |-> <<idx>>, result |-> Returned(o)]
          \/ \E o \in rank_try_idx(idx) :
                call' = [op |-> "Rank::try_idx", args |-> <<idx>>, result |-> Returned(o)]
          \/ call' = [op |-> "Square::try_idx", args |-> <<idx>>,
                      result |-> Returned(square_try_idx(idx))]
    /\ UNCHANGED <<state, ply, panicked, kingMoved, diff, fen, game>>

\* square.try_offset(df, dr)
TryOffset ==
    /\ call = NoCall
    /\ \E sq \in Square, df \in OffsetSteps, dr \in OffsetSteps :
          \E o \in try_offset_outcomes(sq, df, dr) :
              call' = [op |-> "Square::try_offset", args |-> <<sq, df, dr>>, result |-> o]
    /\ UNCHANGED <<state, ply, panicked, kingMoved, diff, fen, game>>

NextCoordinates == TryIdx \/ TryOffset

SpecCoordinates == InitCoordinates /\ [][NextCoordinates]_vars

(***************************************************************************)
(* Games from the default start position in which the pieces of the king's *)
(* side of the board move: long enough for a queen to reach a king.        *)
(***************************************************************************)
MaxPlyKings == 5

\* e2, e4, e7, e5, d1, h5, f7, f6, g7, g6, e8, d2, d3, d7, d6.
KingSideSquares == {12, 28, 52, 36, 3, 39, 53, 45, 54, 46, 60, 11, 19, 51, 43}

InitKings == InitAt({BoardStateDefault})

\* ChessGame::play with a generated move between two of the squares.
PlayKings ==
    /\ ~panicked
    /\ ply < MaxPlyKings
    /\ ~new_panics(state.position, state.turn)
    /\ \E m \in GeneratedMoves(state) :
          /\ m[1] \in KingSideSquares
          /\ m[2] \in KingSideSquares
          /\ state' = play_unchecked(state, m[1], m[2], m[3])
          /\ kingMoved' = [kingMoved EXCEPT ![state.turn] =
                              @ \/ piece_at(state.position, m[1]) = {<<state.turn, King>>}]
    /\ ply' = ply + 1
    /\ UNCHANGED <<panicked, diff, fen, game, call>>

NextKings == PlayKings

SpecKings == InitKings /\ [][NextKings]_vars

(***************************************************************************)
(* Reference notions the claims are stated with.                           *)
(***************************************************************************)
\* A piece of colour `by` attacks the square target in pos.
AttackedBy(pos, by, target) ==
    \E sq \in color_mask(pos, by) :
        /\ piece_at(pos, sq) # {}
        /\ target \in moves(Only(piece_at(pos, sq))[2], sq, occupied(pos), by)[1]

\* The king of colour c stands on a square no enemy piece attacks.
KingSafe(s, c) ==
    /\ king_of(s.position, c) # {}
    /\ ~AttackedBy(s.position, Not(c), Only(king_of(s.position, c)))

\* Both colours have a king.
HasKings(s) == \A c \in Color : king_of(s.position, c) # {}

\* The generator of the current state and the moves it validates.
Gen == generator(state)

Moves == GeneratedMoves(state)

\* The piece type on a square of the current state (None as {}).
TypeAt(s, sq) == IF piece_at(s.position, sq) = {} THEN {} ELSE {Only(piece_at(s.position, sq))[2]}

\* The squares of colour c that hold a piece of type p.
PiecesOf(s, c, p) == s.position.masks[2 + p] \cap color_mask(s.position, c)

\* t lies on the line (file, rank, diagonal or antidiagonal) through a and b.
OnLineThrough(a, b, t) ==
    \/ file(a) = file(b) /\ file(t) = file(a)
    \/ rank(a) = rank(b) /\ rank(t) = rank(a)
    \/ file(a) - rank(a) = file(b) - rank(b) /\ file(t) - rank(t) = file(a) - rank(a)
    \/ file(a) + rank(a) = file(b) + rank(b) /\ file(t) + rank(t) = file(a) + rank(a)

\* The enemy sliders of colour `by` that attack along a line they share
\* with the square king.
LineSliders(pos, by, king) ==
    {e \in orthogonal_sliders(pos, by) : shares_orthogonal(e, king)}
      \cup {e \in diagonal_sliders(pos, by) : shares_diagonal(e, king)}

\* The own piece on sq is the only occupied square between its king and an
\* enemy slider attacking along that line.
IsPinned(s, sq) ==
    LET king == Only(king_of(s.position, s.turn))
    IN  /\ sq \in color_mask(s.position, s.turn)
        /\ \E e \in LineSliders(s.position, Not(s.turn), king) \ {king} :
              BETWEEN[king][e] \cap occupied(s.position) = {sq}

(***************************************************************************)
(* Claims.                                                                 *)
(***************************************************************************)
\* C1: generator soundness.  In every state reached from the default start
\* position by generated moves, no generated move leaves or puts the
\* mover's king on a square an enemy piece attacks.
C1_GeneratorSound ==
    HasKings(state) =>
        \A m \in Moves : KingSafe(play_unchecked(state, m[1], m[2], m[3]), state.turn)

\* C2: once play_unchecked has moved the king of a colour, that colour holds
\* no castle right, in the returned state and in every later state.
C2_KingMoveLosesCastle ==
    \A c \in Color : kingMoved[c] =>
        \A dir \in CastleDir : ~has_castle(state.castle, c, state.fullmoves, dir)

\* The generated moves of a rook off its home square of a direction whose
\* right is held: <<move, direction>>.
RookHomeMoves(s) ==
    {<<m, dir>> \in GeneratedMoves(s) \X CastleDir :
        /\ TypeAt(s, m[1]) = {Rook}
        /\ m[1] = rook_square(s.castle, s.turn, dir)
        /\ has_castle(s.castle, s.turn, s.fullmoves, dir)}

\* C3: after a rook leaves its home square of a direction whose right is
\* held, the returned state does not hold that right at its fullmove
\* number, and the other three lost-turn values are unchanged.
C3_RookMoveLosesDirection ==
    HasKings(state) =>
        \A md \in RookHomeMoves(state) :
            LET m   == md[1]
                dir == md[2]
                c   == state.turn
                i   == IF dir = Short THEN 1 ELSE 2
                s2  == play_unchecked(state, m[1], m[2], m[3])
            IN  /\ ~has_castle(s2.castle, c, s2.fullmoves, dir)
                /\ rights(s2.castle, c)[3 - i] = rights(state.castle, c)[3 - i]
                /\ rights(s2.castle, Not(c)) = rights(state.castle, Not(c))

\* The generated king moves onto a square of castle_play_mask of a direction
\* whose right is held: <<move, direction>>.
CastleRequests(s) ==
    {<<m, dir>> \in GeneratedMoves(s) \X CastleDir :
        /\ TypeAt(s, m[1]) = {King}
        /\ m[2] \in castle_play_mask(s.castle, s.turn, dir)
        /\ has_castle(s.castle, s.turn, s.fullmoves, dir)}

\* The castle of colour c in direction dir was performed between s and s2 by
\* the king move from `from`.
CastlePerformed(s, s2, from, dir) ==
    LET c       == s.turn
        targets == target_squares(c, dir)
        rook    == rook_square(s.castle, c, dir)
    IN  /\ piece_at(s2.position, targets[1]) = {<<c, King>>}
        /\ piece_at(s2.position, targets[2]) = {<<c, Rook>>}
        /\ \A sq \in {from, rook} \ {targets[1], targets[2]} :
              sq \notin occupied(s2.position)
        /\ \A k \in Color : \A p \in Piece :
              Cardinality(PiecesOf(s2, k, p)) = Cardinality(PiecesOf(s, k, p))
        /\ s2.position.halfmoves = inc_u8(s.position.halfmoves)

\* C4: a king move onto a square of castle_play_mask of a held direction
\* performs the castle: king and rook on their fixed targets, their start
\* squares empty, no piece lost, halfmoves incremented.
C4_CastleIsPerformed ==
    HasKings(state) =>
        \A md \in CastleRequests(state) :
            CastlePerformed(state, play_unchecked(state, md[1][1], md[1][2], md[1][3]),
                            md[1][1], md[2])

\* The block mask of the specification: the long direction is built from
\* the queenside rook square.
SpecBlockMask(castle, king, color, dir) ==
    LET rook    == rook_square(castle, color, dir)
        targets == target_squares(color, dir)
    IN  (BETWEEN[king][targets[1]] \cup BETWEEN[rook][targets[2]]
            \cup {targets[1], targets[2]}) \ {king, rook}

\* The condition under which castling in direction dir is to be added.
CastleAllowed(s, g, king, dir) ==
    /\ has_castle(s.castle, s.turn, s.fullmoves, dir)
    /\ check_mask(king, s.turn, dir) \cap g.defense = {}
    /\ SpecBlockMask(s.castle, king, s.turn, dir) \cap occupied(s.position) = {}

\* C5: for a king that is not in check, the squares of castle_play_mask(dir)
\* are generated for the king exactly when the right is held, no square of
\* check_mask is defended and no square of block_mask is occupied (a square
\* next to the king may also be an ordinary king move).
C5_CastleGeneratedIffAllowed ==
    (HasKings(state) /\ KingSafe(state, state.turn)) =>
        LET king == Only(king_of(state.position, state.turn))
        IN  \A dir \in CastleDir :
              LET play == castle_play_mask(state.castle, state.turn, dir)
              IN  IF CastleAllowed(state, Gen, king, dir)
                  THEN play \subseteq generate(Gen, king)
                  ELSE (play \ KING[king]) \cap generate(Gen, king) = {}

\* C6: the generated destinations of a pinned piece lie on the line through
\* its king and its square.
C6_PinnedStaysOnLine ==
    HasKings(state) =>
        \A sq \in color_mask(state.position, state.turn) :
            IsPinned(state, sq) =>
                \A d \in generate(Gen, sq) :
                    OnLineThrough(Only(king_of(state.position, state.turn)), sq, d)

\* C7: under double check (two or more pieces in the checking mask) the
\* generator returns the empty mask for every own piece that is not the
\* king, a pawn that could capture en passant included.
C7_DoubleCheckOnlyKing ==
    (HasKings(state) /\ Cardinality(Gen.checking) >= 2) =>
        \A sq \in color_mask(state.position, state.turn) \ kings(state.position) :
            generate(Gen, sq) = {}

\* C7 witness: a double check reached by a move, in which an own piece that
\* is not the king attacks one of the checking pieces.
C7_Witness ==
    /\ ply > 0
    /\ HasKings(state)
    /\ Cardinality(Gen.checking) >= 2
    /\ \E sq \in color_mask(state.position, state.turn) \ kings(state.position) :
          moves(Only(TypeAt(state, sq)), sq, occupied(state.position), state.turn)[1]
              \cap Gen.checking # {}

\* Capturing en passant with the pawn on sq opens an unblocked line from an
\* enemy rook/queen or bishop/queen to the own king.
EnPassantOpensLine(s, sq) ==
    LET epsq       == Only(s.position.enps)
        king       == Only(king_of(s.position, s.turn))
        capture_sq == with_file(sq, file(epsq))
        blockers   == (occupied(s.position) \cup {epsq}) \ {sq, capture_sq}
    IN  \E e \in LineSliders(s.position, Not(s.turn), king) \ {capture_sq} :
            BETWEEN[king][e] \cap blockers = {}

\* C8: with an en passant target, the own king not in check and an own pawn
\* attacking the target, the target is generated for the pawn if and only
\* if the capture opens no line to the own king.
C8_EnPassantLegality ==
    (HasKings(state) /\ state.position.enps # {} /\ KingSafe(state, state.turn)) =>
        \A sq \in PiecesOf(state, state.turn, Pawn) :
            Only(state.position.enps) \in relevant_squares(Pawn, sq, state.turn) =>
                (Only(state.position.enps) \in generate(Gen, sq)
                    <=> ~EnPassantOpensLine(state, sq))

\* C9: a king in check may still move to every adjacent square that holds
\* no own piece and is not in the defence mask.
C9_KingEscapesCheck ==
    (HasKings(state) /\ is_check(Gen)) =>
        LET king == Only(king_of(state.position, state.turn))
        IN  (KING[king] \ color_mask(state.position, state.turn)) \ Gen.defense
                \subseteq generate(Gen, king)

\* C10: with a king of each colour on the board the generator does not
\* panic, and it returns the empty mask for an empty square and for a piece
\* of the colour that is not to move.
C10_GeneratorDoesNotFail ==
    HasKings(state) =>
        /\ ~panicked
        /\ \A sq \in Square :
              (sq \notin color_mask(state.position, state.turn)) =>
                  generate(Gen, sq) = {}


\* The move m of state s captures an enemy piece (en passant included).
IsCapture(s, m) ==
    \/ m[2] \in color_mask(s.position, Not(s.turn))
    \/ TypeAt(s, m[1]) = {Pawn} /\ s.position.enps = {m[2]}

\* C11: every generated move flips the turn, increments fullmoves exactly
\* when black moved, and sets halfmoves to 0 for a pawn move or a capture
\* and to halfmoves + 1 otherwise (castling is not a capture).
C11_TurnAndCounters ==
    HasKings(state) =>
        \A m \in Moves :
            LET s2 == play_unchecked(state, m[1], m[2], m[3])
            IN  /\ s2.turn = Not(state.turn)
                /\ s2.fullmoves = IF state.turn = Black THEN state.fullmoves + 1
                                  ELSE state.fullmoves
                /\ s2.position.halfmoves =
                      IF TypeAt(state, m[1]) = {Pawn} \/ IsCapture(state, m) THEN 0
                      ELSE state.position.halfmoves + 1

\* The squares a pawn of the side to move in s left by an advance of two
\* ranks on the way to s2.
DoublePushedFrom(s, s2) ==
    {sq \in PiecesOf(s, s.turn, Pawn) :
        /\ sq \notin occupied(s2.position)
        /\ rank(sq) + 2 * pawn_dir(s.turn) \in 0..7
        /\ LET to == SquareNew(file(sq), rank(sq) + 2 * pawn_dir(s.turn))
           IN  /\ to \notin occupied(s.position)
               /\ to \in PiecesOf(s2, s.turn, Pawn)}

\* The en passant target play_unchecked is to leave between s and s2.
ExpectedEnPassant(s, s2) ==
    {SquareNew(file(sq), rank(sq) + pawn_dir(s.turn)) : sq \in DoublePushedFrom(s, s2)}

\* C12: after a move the en passant target is the square the pawn passed
\* over if the move was a pawn advance of two ranks, and None after every
\* other move, whatever the target was before.
C12_EnPassantBookkeeping ==
    [][ply' = ply + 1 =>
          state'.position.enps = ExpectedEnPassant(state, state')]_vars

\* C12 witness: a double push has just been played and its en passant
\* target stands, while the side to move has a move that is to clear it.
C12_Witness ==
    /\ ply > 0
    /\ state.position.enps # {}
    /\ HasKings(state)
    /\ Moves # {}


\* The invariants of a Position.
ValidPosition(pos) ==
    /\ white(pos) \cap black(pos) = {}
    /\ \A sq \in white(pos) \cup black(pos) :
          Cardinality({p \in Piece : sq \in pos.masks[2 + p]}) = 1
    /\ \A p \in Piece : \A sq \in pos.masks[2 + p] :
          Cardinality({c \in Color : sq \in color_mask(pos, c)}) = 1

\* C13: in every state reached by play_unchecked and Position::change calls
\* from a valid position the colour masks are disjoint, every occupied
\* square is in exactly one piece-type mask and every square of a
\* piece-type mask is in exactly one colour mask.
C13_PositionInvariants ==
    /\ ValidPosition(state.position)
    /\ ValidPosition(diff.board)

\* C13 witness: after a move of the game, a Position::change call has
\* overwritten an occupied square.
C13_Witness ==
    /\ ply > 0
    /\ diff.active
    /\ diff.next > 1
    /\ Cardinality(occupied(diff.board)) < Cardinality(occupied(diff.from))

\* The run of Position::changes has applied all its edits.
DiffApplied == diff.active /\ diff.next > Len(diff.edits)

\* C14: applying the edits of a.changes(b) to a in the order returned
\* yields the 8 masks of b.
C14_ChangesReachTarget ==
    DiffApplied => diff.board.masks = diff.to.masks

\* C15: Position::changes returns its edits ordered Remove before Move
\* before Add.
C15_RemoveMoveAddOrder ==
    diff.active =>
        \A i \in 1..Len(diff.edits) : \A j \in 1..Len(diff.edits) :
            i < j => priority(diff.edits[i]) >= priority(diff.edits[j])


\* The <<colour, direction>> castling rights a CastleRights value holds: the
\* loss turn of a right that is held is negative (castle.rs:11-17).
HeldRights(castle) ==
    {<<c, d>> \in Color \X CastleDir :
        rights(castle, c)[IF d = Long THEN 2 ELSE 1] < 0}

\* s and the result r of a parse agree on the piece placement, the turn, the
\* en passant target, the two move counters and the castling rights held.
SameBoardState(s, r) ==
    /\ r.err = "Ok"
    /\ r.val.position = s.position
    /\ r.val.turn = s.turn
    /\ r.val.fullmoves = s.fullmoves
    /\ HeldRights(r.val.castle) = HeldRights(s.castle)

\* C16: parsing the FEN a state of the game is serialised to succeeds and
\* gives the state back: same placement, turn, en passant target, halfmoves,
\* fullmoves and set of castling rights held.
C16_FenRoundTrip == SameBoardState(state, from_fen_str(to_fen(state)))

\* "rnbqkbnr/pppppppp/8/8/8/8/PPPPPPPP/RNBQKBNR w KQkq - 0 1"
DefaultFen ==
    <<"r", "n", "b", "q", "k", "b", "n", "r", "/",
      "p", "p", "p", "p", "p", "p", "p", "p", "/",
      "8", "/", "8", "/", "8", "/", "8", "/",
      "P", "P", "P", "P", "P", "P", "P", "P", "/",
      "R", "N", "B", "Q", "K", "B", "N", "R", " ",
      "w", " ", "K", "Q", "k", "q", " ", "-", " ", "0", " ", "1">>

\* C17: the castling field of the FEN of a state is "-" when no right is
\* held, and otherwise has exactly one character for each right held, the
\* character of that colour and direction; the default state is serialised
\* to "rnbqkbnr/pppppppp/8/8/8/8/PPPPPPPP/RNBQKBNR w KQkq - 0 1".
C17_CastleFieldOfFen ==
    LET field == to_fen_string(state.castle)
        held  == HeldRights(state.castle)
    IN  /\ held = {} => field = <<"-">>
        /\ held # {} =>
              /\ Len(field) = Cardinality(held)
              /\ \A r \in held :
                    \E i \in 1..Len(field) :
                        field[i] = castle_dir_as_char(state.castle, r[1], r[2])
        /\ state = BoardStateDefault => to_fen(state) = DefaultFen


\* The grammar of a FEN board field: rank separators, the digits 1 to 8 and
\* the piece letters.
BoardAlphabet ==
    {"/", "1", "2", "3", "4", "5", "6", "7", "8",
     "P", "N", "B", "R", "Q", "K", "p", "n", "b", "r", "q", "k"}

FileLetters == {"a", "b", "c", "d", "e", "f", "g", "h"}

RankDigits == {"1", "2", "3", "4", "5", "6", "7", "8"}

\* The squares a board field describes, in the order it describes them:
\* "." for each square a digit skips, the letter for a piece.
RECURSIVE Cells(_)
Cells(str) ==
    IF str = <<>> THEN <<>>
    ELSE (IF str[1] = "/" THEN <<>>
          ELSE IF str[1] \in RankDigits \cup {"0", "9"}
          THEN [i \in 1..Only(position_in(Digits, str[1])) - 1 |-> "."]
          ELSE <<str[1]>>) \o Cells(Tail(str))

\* The pieces of a text between its separators sep (empty pieces kept).
RECURSIVE SplitOn(_, _, _)
SplitOn(str, sep, piece) ==
    IF str = <<>> THEN <<piece>>
    ELSE IF str[1] = sep THEN <<piece>> \o SplitOn(Tail(str), sep, <<>>)
    ELSE SplitOn(Tail(str), sep, Append(piece, str[1]))

UnknownBoardCharacter(board) == \E i \in 1..Len(board) : board[i] \notin BoardAlphabet

PiecePastLastSquare(board) ==
    \E i \in 1..Len(Cells(board)) : i > 64 /\ Cells(board)[i] # "."

\* The board field is not eight ranks of eight squares.
BadBoardShape(board) ==
    LET ranks == SplitOn(board, "/", <<>>)
    IN  Len(ranks) # 8 \/ \E i \in 1..Len(ranks) : Len(Cells(ranks[i])) # 8

ClassicalCastle(field) ==
    field = <<"-">> \/ \A i \in 1..Len(field) : field[i] \in {"K", "Q", "k", "q"}

\* A Shredder castling field: rook file letters only.
ShredderCastle(field) ==
    \A i \in 1..Len(field) : to_ascii_lowercase(field[i]) \in FileLetters

\* A castling field read as a Shredder field: no classical character.
ShredderMode(field) ==
    \A i \in 1..Len(field) : field[i] \notin {"K", "Q", "k", "q", "-"}

SquareName(field) ==
    Len(field) = 2 /\ field[1] \in FileLetters /\ field[2] \in RankDigits

\* The value of a text of decimal digits; -1 when it is not one.
RECURSIVE Number(_, _)
Number(str, acc) ==
    IF str = <<>> THEN acc
    ELSE IF position_in(Digits, str[1]) = {} THEN -1
    ELSE Number(Tail(str), 10 * acc + Only(position_in(Digits, str[1])) - 1)

IsInteger(field) == field # <<>> /\ Number(field, 0) >= 0

\* The error kinds of the malformed parts of a text given as its fields.
MalformedParts(input) ==
    IF Len(input) # 6 THEN {"MissingInfo"}
    ELSE {k \in FenParseError :
            \/ k = "BadPosition" /\ (UnknownBoardCharacter(input[1])
                                     \/ PiecePastLastSquare(input[1]))
            \/ k = "BadTurn" /\ input[2] \notin {<<"w">>, <<"b">>}
            \/ k = "BadCastle" /\ ~ClassicalCastle(input[3]) /\ ~ShredderCastle(input[3])
            \/ k = "BadEnPassant" /\ input[4] # <<"-">> /\ ~SquareName(input[4])
            \/ k = "BadHalfmoves" /\ (~IsInteger(input[5]) \/ Number(input[5], 0) > 50)
            \/ k = "BadFullmoves" /\ ~IsInteger(input[6])
            \/ k = "MissingKings" /\ ShredderMode(input[3])
                                  /\ \E king \in {"K", "k"} :
                                        \A i \in 1..Len(input[1]) : input[1][i] # king}

\* C18: from_fen does not return Ok for a malformed text and its error is
\* the kind of a malformed part: MissingInfo for a field count other than
\* six, BadPosition for an unknown board character or a piece past the 64th
\* square, BadTurn, BadCastle, BadEnPassant, BadHalfmoves (not an integer,
\* or above 50), BadFullmoves, and MissingKings for a Shredder castling
\* field when a colour has no king.
C18_MalformedFenIsRejected ==
    fen.input # <<>> =>
        /\ MalformedParts(fen.input) # {} => fen.err \in MalformedParts(fen.input)
        /\ Len(fen.input) = 6 /\ BadBoardShape(fen.input[1]) => fen.err # "Ok"

\* C19: for every rook file letter of a Shredder castling field that was
\* parsed, the letter's colour holds the right Short when the file is
\* greater than its king's file and Long when it is lesser, the rook start
\* square of that right is on the named file, and the castling field
\* to_fen writes for the parsed state has the same letters.
C19_ShredderCastleField ==
    fen.err = "Ok" /\ ShredderCastle(fen.input[3]) =>
        LET field == fen.input[3]
        IN  \A i \in 1..Len(field) :
                LET color == IF field[i] \in FileLetters THEN Black ELSE White
                    f     == Only(position_in(LowerLetters, to_ascii_lowercase(field[i]))) - 1
                    kf    == file(Min(kings(state.position) \cap color_mask(state.position, color)))
                    dir   == IF f > kf THEN Short ELSE Long
                IN  f # kf =>
                      /\ <<color, dir>> \in HeldRights(state.castle)
                      /\ file(rook_square(state.castle, color, dir)) = f
                      /\ fen.written # <<>> =>
                            LET out == SplitOn(fen.written, " ", <<>>)[3]
                            IN  {out[k] : k \in 1..Len(out)} = {field[k] : k \in 1..Len(field)}

\* C20: the history of a game is never empty, its first element is the
\* position of first() and its last element the position of last().
C20_HistoryOfGame ==
    /\ game.history # <<>>
    /\ game.history[1] = game.first.position
    /\ game.history[Len(game.history)] = game.last.position


\* C21: for an index inside the history, fork returns a game whose history
\* is the positions 0..=index of the original, whose first state is the
\* original's and whose last state has the position at the index; for an
\* index past the end it returns None.
C21_ForkKeepsUpToIndex ==
    \A index \in 0..(Len(game.history) + 1) :
        IF index < Len(game.history)
        THEN /\ fork(game, index) # {}
             /\ LET forked == Only(fork(game, index))
                IN  /\ forked.history = SubSeq(game.history, 1, index + 1)
                    /\ forked.first = game.first
                    /\ forked.last = Only(state_at_index(game, index))
                    /\ forked.last.position = game.history[index + 1]
        ELSE fork(game, index) = {}

\* C22: clear_after at an index inside the history leaves the positions
\* 0..=index and makes the state at the index the last state; at an index
\* past the end it leaves the game unchanged.
C22_ClearAfterDropsTail ==
    \A index \in 0..(Len(game.history) + 1) :
        LET cleared == clear_after(game, index)
        IN  IF index < Len(game.history)
            THEN /\ cleared.history = SubSeq(game.history, 1, index + 1)
                 /\ cleared.first = game.first
                 /\ cleared.last = Only(state_at_index(game, index))
                 /\ cleared.last.position = game.history[index + 1]
            ELSE cleared = game

\* The elements of the history before the last one whose 8 masks are those
\* of the last position.
EarlierOccurrences(g) ==
    {i \in 1..(Len(g.history) - 1) : g.history[i].masks = g.last.position.masks}

HeldCastleTo(s, c, dest) ==
    {dir \in CastleDir : /\ <<c, dir>> \in HeldRights(s.castle)
                         /\ dest \in castle_play_mask(s.castle, c, dir)}

\* "O-O" and "O-O-O" for both colours.
CastleTextUpper(c, dir) == IF dir = Short THEN <<"O", "-", "O">> ELSE <<"O", "-", "O", "-", "O">>

\* "O-O" and "O-O-O" for White, "o-o" and "o-o-o" for Black.
CastleTextOfColour(c, dir) ==
    IF c = White THEN CastleTextUpper(c, dir)
    ELSE IF dir = Short THEN <<"o", "-", "o">> ELSE <<"o", "-", "o", "-", "o">>

\* The notation asked is that of a king move of colour c, and it is as
\* expected: castle(c, dir) for a destination in the play mask of a right
\* held, and for a destination in no play mask the king letter, "x" if the
\* destination is occupied, and the destination.
KingNotationIs(castle(_, _)) ==
    call.op = "notation" =>
        LET from == call.args[1]
            dest == call.args[2]
        IN  \A c \in Color :
                piece_at(state.position, from) = {<<c, King>>} =>
                    IF HeldCastleTo(state, c, dest) # {}
                    THEN call.result = castle(c, Only(HeldCastleTo(state, c, dest)))
                    ELSE (\A dir \in CastleDir :
                              dest \notin castle_play_mask(state.castle, c, dir)) =>
                         call.result
                            = <<IF c = White THEN "K" ELSE "k">>
                                \o (IF dest \in occupied(state.position)
                                    THEN <<"x">> ELSE <<>>)
                                \o to_string_lower(dest)

UnblockedRivals(s, from, dest, piece, color) ==
    {q \in (relevant_squares(piece, dest, color)
              \cap s.position.masks[2 + piece]
              \cap color_mask(s.position, color)) \ {from} :
        BETWEEN[dest][q] \cap occupied(s.position) = {}}

\* The source prefix that disambiguation by unblocked rivals asks for.
RivalPrefix(s, from, dest, piece, color) ==
    LET rivals == UnblockedRivals(s, from, dest, piece, color)
    IN  IF rivals = {} THEN <<>>
        ELSE IF Cardinality(rivals) = 1
        THEN (IF file(from) # file(CHOOSE q \in rivals : TRUE)
              THEN <<to_char_lower(file(from))>>
              ELSE <<rank_to_char(rank(from))>>)
        ELSE to_string_lower(from)

\* C25: the notation of a rook, knight, bishop or queen move carries a source
\* prefix exactly when another piece of the same type and colour attacks dest
\* with no piece between: no prefix without such a piece, the file letter of
\* the mover (or its rank digit when the files agree) with exactly one, the
\* full source square with more than one.
C25_Disambiguation ==
    (call.op = "notation" /\ piece_at(state.position, call.args[1]) # {}) =>
        LET from  == call.args[1]
            dest  == call.args[2]
            p     == Only(piece_at(state.position, from))
            color == p[1]
            piece == p[2]
        IN  piece \in {Rook, Knight, Bishop, Queen} =>
                call.result = RivalPrefix(state, from, dest, piece, color)
                    \o <<id(piece, color)>>
                    \o (IF piece_at(state.position, dest) # {} THEN <<"x">> ELSE <<>>)
                    \o to_string_lower(dest)


\* The move m of the mover of s is no castle: no king move to a square that
\* requests a castle in a direction whose right the mover holds.
NotACastle(s, m) ==
    \/ piece_at(s.position, m[1]) # {<<s.turn, King>>}
    \/ HeldCastleTo(s, s.turn, m[2]) = {}

\* The squares whose placement the non-castling move m may change.
FrameSquares(s, m) ==
    {m[1], m[2]} \cup
        (IF piece_at(s.position, m[1]) = {<<s.turn, Pawn>>} /\ s.position.enps = {m[2]}
         THEN {SquareNew(file(m[2]), rank(m[1]))}
         ELSE {})

\* The placement of t is that of s with the non-castling move m made.
FrameOfMove(s, m, t) ==
    LET moved == Only(piece_at(s.position, m[1]))[2]
    IN  /\ piece_at(t.position, m[1]) = {}
        /\ piece_at(t.position, m[2]) =
               {<<s.turn, IF m[3] # {} THEN Only(m[3]) ELSE moved>>}
        /\ \A sq \in FrameSquares(s, m) \ {m[2]} : piece_at(t.position, sq) = {}
        /\ \A sq \in Square \ FrameSquares(s, m) :
               piece_at(t.position, sq) = piece_at(s.position, sq)

\* C26: a generated move that is no castle changes the placement only on
\* from (emptied), on dest (the moved piece, or the promotion piece, in the
\* colour of the mover) and, for a pawn that moves onto the en passant
\* square, on the square of the captured pawn (emptied).
C26_FrameOfMove ==
    [][ply' = ply + 1 =>
          \A m \in GeneratedMoves(state) :
              (state' = play_unchecked(state, m[1], m[2], m[3]) /\ NotACastle(state, m))
                  => FrameOfMove(state, m, state')]_vars


\* The board states a and b agree in position, turn, fullmove number and
\* the castling rights held.
SameStateOfGame(a, b) ==
    /\ a.position = b.position
    /\ a.turn = b.turn
    /\ a.fullmoves = b.fullmoves
    /\ HeldRights(a.castle) = HeldRights(b.castle)

\* C27: in a game built from the default state by play calls,
\* state_at_index gives the state that was last() after that many plays:
\* at index 0 it is first(), at index len() - 1 it is last(), and past the
\* end of the history it is None.
C27_StateAtIndex ==
    LET len == Len(game.history)
    IN  /\ state_at_index(game, 0) # {}
        /\ SameStateOfGame(Only(state_at_index(game, 0)), game.first)
        /\ state_at_index(game, len - 1) # {}
        /\ SameStateOfGame(Only(state_at_index(game, len - 1)), game.last)
        /\ state_at_index(game, len) = {}

\* C28: play_unchecked with a from square that holds no piece is a no-op:
\* the returned state has the placement, en passant square, halfmoves,
\* castling rights, fullmoves and turn of the state it was called on.
C28_EmptyFromIsNoOp ==
    (call.op = "play_unchecked" /\ piece_at(state.position, call.args[1]) = {}) =>
        /\ call.result.position.masks = state.position.masks
        /\ call.result.position.enps = state.position.enps
        /\ call.result.position.halfmoves = state.position.halfmoves
        /\ call.result.castle = state.castle
        /\ call.result.fullmoves = state.fullmoves
        /\ call.result.turn = state.turn

\* C29: the coordinate constructors check bounds: File::try_idx and
\* Rank::try_idx return None for every index from 8 on, Square::try_idx
\* returns None for every index from 64 on, and Square::try_offset returns
\* None when the file or the rank leaves 0..=7 and the square of the new
\* coordinates otherwise.
C29_ConstructorsCheckBounds ==
    /\ (call.op \in {"File::try_idx", "Rank::try_idx"} /\ call.args[1] >= 8) =>
           call.result = Returned({})
    /\ (call.op = "Square::try_idx" /\ call.args[1] >= 64) =>
           call.result = Returned({})
    /\ call.op = "Square::try_offset" =>
           LET f == file(call.args[1]) + call.args[2]
               r == rank(call.args[1]) + call.args[3]
           IN  call.result = IF f \in 0..7 /\ r \in 0..7
                             THEN Returned({SquareNew(f, r)})
                             ELSE Returned({})

\* C30: in every state reached from the default start position by
\* generated moves each colour has exactly one king, so that the
\* construction of a MoveGenerator finds the king it expects.
C30_OneKingEach ==
    /\ \A c \in Color :
          Cardinality(kings(state.position) \cap color_mask(state.position, c)) = 1
    /\ ~new_panics(state.position, state.turn)

====
